---- MODULE Spec2Model ----
(***************************************************************************)
(* The ABCI request dispatcher of orga (src/src/abci/mod.rs): the I/O      *)
(* workers, the capacity-0 request queue, the executor's listen loop and   *)
(* ABCIStateMachine::run with its two parked overlays on top of the store. *)
(***************************************************************************)
EXTENDS Integers, Sequences, FiniteSets, TLC

(***************************************************************************)
(* Bounds of the model.                                                    *)
(***************************************************************************)
\* Requests the workers read from their connections in one run.
MaxReqs == 3
\* Largest block height a header or an EndBlock request carries.
MaxHeight == 2
\* Most bytes of an envelope that are written out one by one.
MaxHead == 2

\* The I/O workers listen creates, one per connection (the code accepts
\* four connections; two are enough for two requests to compete).
Workers == {"w1", "w2"}
\* Heights the consensus engine sends: ABCI block heights are positive.
Heights == 1..MaxHeight
\* The values ORGA_STOP_HEIGHT takes: unset, or a stop height.
StopHeights == {<<>>, <<1>>}
\* The keys the application's handlers read and write.
Keys == {"k1"}

(***************************************************************************)
(* Option<T>: None is the empty sequence, Some(x) the one-element one.     *)
(***************************************************************************)
None == <<>>
Some(x) == <<x>>
IsSome(o) == o # None
Unwrap(o) == o[1]

(***************************************************************************)
(* Values.  A value stored under a key is the name of the handler kind     *)
(* that wrote it, so that the origin of every value read is visible.       *)
(* Absent stands for "no entry" (a get that returns None); Tomb is the     *)
(* overlay entry None, a pending delete.                                   *)
(***************************************************************************)
Absent == "absent"
Tomb == "tomb"
WriterKinds == {"InitChain", "BeginBlock", "DeliverTx", "EndBlock", "CheckTx"}
ConsensusKinds == {"InitChain", "BeginBlock", "DeliverTx", "EndBlock"}
Kinds ==
    {"Empty", "Info", "Flush", "Echo", "SetOption", "Query", "InitChain",
     "BeginBlock", "DeliverTx", "EndBlock", "Commit", "CheckTx",
     "ApplySnapshotChunk"}
\* The chunk indexes and the senders an ApplySnapshotChunk request names.
Indexes == {1, 2}
Senders == {"p1"}

\* BufStoreMap: Key -> Option<Value>, with Absent for keys not in the map.
EmptyMap == [k \in Keys |-> Absent]
\* MapStore of the MemStore: Key -> Value, with Absent for keys not in it.
EmptyKV == [k \in Keys |-> Absent]

\* BufStore::get: the buffer's entry when it has one (a tombstone reads as
\* None), else the parent's answer.
BufGet(map, parent) ==
    [k \in Keys |->
        IF map[k] = Absent THEN parent[k]
        ELSE IF map[k] = Tomb THEN Absent
        ELSE map[k]]

\* BufStore::flush into a parent BufStore: each Some is a put (recorded as
\* Some), each None a delete (recorded as None) in the parent's map.
FlushBuf(map, parent) ==
    [k \in Keys |-> IF map[k] = Absent THEN parent[k] ELSE map[k]]

\* BufStore::flush into the store: MemStore::put / MemStore::delete.
FlushStore(map, kv) ==
    [k \in Keys |->
        IF map[k] = Absent THEN kv[k]
        ELSE IF map[k] = Tomb THEN Absent
        ELSE map[k]]

\* What a handler reads through Shared<BufStore<Shared<BufStore<store>>>>
\* before it has written anything: the outer overlay over the store.
WrappedView(outer, kv) == BufGet(EmptyMap, BufGet(outer, kv))

\* root_hash of the Merkle store: a function of the contents alone.
EmptyHash == <<>>
RootHash(kv) == <<kv>>

(***************************************************************************)
(* State.                                                                  *)
(***************************************************************************)
VARIABLES
    app,                \* self.app is Some
    store,              \* self.store is Some
    merk,               \* contents of the store (MemStore.store)
    merkHeight,         \* height of the store (MemStore.height)
    mempool_state,      \* Option<BufStoreMap>
    consensus_state,    \* Option<BufStoreMap>
    height,             \* self.height
    skip_init_chain,    \* self.skip_init_chain
    header,             \* Option<Header>, a header being its height
    shutdown,           \* Arc<RwLock<Option<Error>>>
    shutdown_notifier,  \* Arc<RwLock<bool>>
    stop_height,        \* ORGA_STOP_HEIGHT, None when unset
    epc,                \* where the executor is in listen
    cur,                \* the (request, reply channel) the executor holds
    result,             \* what run returned for cur
    seen,               \* what the handler of cur read and wrote
    prev,               \* kind, outcome and reply of the request before cur
    committed,          \* contents of the store without the open block
    wpc,                \* where each worker is in its loop
    nreq,               \* requests read so far
    nrecv,              \* requests the executor has received
    nreply,             \* replies the executor has sent
    call,               \* sdk_compat: the native call handed to encode
    bytes,              \* sdk_compat: the envelope handed to decode
    decoded,            \* sdk_compat: what decode returned
    cpc,                \* sdk_compat: which codec operation has run
    backing,            \* store: the backing store's entries
    prefix,             \* store: Store.prefix of the view
    path,               \* store: the keys given to sub, in order
    out,                \* store: the last operation on the view, its result
    spc,                \* store: whether the view is built or has been used
    accounts,           \* coins: Accounts.accounts, the balance of each address
    transfers_allowed,  \* coins: Accounts.transfers_allowed
    transfer_exceptions, \* coins: the keys of Accounts.transfer_exceptions
    paid,               \* coins: the balance of the Paid context, if there is one
    ret,                \* coins: the last call of Accounts and what it returned
    given,              \* plugin: the method of SdkCompatPlugin called, its argument
    invoked,            \* plugin: what that call invoked on the inner layer
    returned,           \* plugin: what that call returned
    ncalls,             \* plugin: calls made so far
    sent,               \* client: the call handed to HttpClient::call
    broadcast,          \* client: the transactions broadcast so far
    rpc,                \* client: the result of the broadcast, if one was made
    answer,             \* client: what HttpClient::call returned
    nsent               \* client: calls made so far

\* The state of the dispatcher.
dispatcherVars ==
    <<app, store, merk, merkHeight, mempool_state, consensus_state, height,
      skip_init_chain, header, shutdown, shutdown_notifier, stop_height, epc,
      cur, result, seen, prev, committed, wpc, nreq, nrecv, nreply>>
\* The state of the envelope codec (plugins/sdk_compat.rs).
codecVars == <<call, bytes, decoded, cpc>>
\* The state of the modules the dispatcher's steps do not touch.
\* The state of a prefix view and its backing store (store/store.rs).
storeVars == <<backing, prefix, path, out, spc>>
\* The state of the accounts module (coins/accounts.rs).
accountVars == <<accounts, transfers_allowed, transfer_exceptions, paid, ret>>
\* The state of SdkCompatPlugin and its inner layer (plugins/sdk_compat.rs).
pluginVars == <<given, invoked, returned, ncalls>>
\* The state of HttpClient and the node it talks to (tendermint/client.rs).
clientVars == <<sent, broadcast, rpc, answer, nsent>>
libVars == <<codecVars, storeVars, accountVars, pluginVars, clientVars>>
\* What the steps of one module leave alone.
notCodec == <<dispatcherVars, storeVars, accountVars, pluginVars, clientVars>>
notStore == <<dispatcherVars, codecVars, accountVars, pluginVars, clientVars>>
notAccounts == <<dispatcherVars, codecVars, storeVars, pluginVars, clientVars>>
notPlugin == <<dispatcherVars, codecVars, storeVars, accountVars, clientVars>>
notClient == <<dispatcherVars, codecVars, storeVars, accountVars, pluginVars>>

vars == <<dispatcherVars, libVars>>

machine ==
    <<app, store, merk, merkHeight, mempool_state, consensus_state, height,
      header, committed>>
config == <<skip_init_chain, stop_height>>
workerVars == <<wpc, nreq>>
counters == <<nrecv, nreply>>

NoReq ==
    [kind |-> "none", h |-> 0, index |-> 0, sender |-> "", w |-> "none",
     seq |-> 0, flagged |-> FALSE]
NoRes == [kind |-> "none", code |-> 0, height |-> 0, hash |-> EmptyHash]
NoResult == [state |-> "none", res |-> NoRes]
\* The text of an error, "" when there is none.
NoText == ""
\* The error texts a failing query handler returns.
QueryErrors == {"e1", "e2"}
NoSeen ==
    [handler |-> "none", view |-> EmptyKV, wr |-> EmptyMap, pend |-> EmptyMap,
     err |-> NoText]
NoPrev == [kind |-> "none", res |-> NoRes, expect |-> EmptyMap]

Res(kind, code, h, hash) == [kind |-> kind, code |-> code, height |-> h, hash |-> hash]
Ok(res) == [state |-> "ok", res |-> res]
Err == [state |-> "err", res |-> NoRes]
\* ResponseQuery: the fields of Res and those a Query reply adds to them.
QueryRes(code, log, info, h, key, value, proof) ==
    [kind |-> "Query", code |-> code, height |-> h, hash |-> EmptyHash,
     log |-> log, info |-> info, key |-> key, value |-> value,
     proof |-> proof]
Panic == [state |-> "panic", res |-> NoRes]

\* The requests a connection can deliver: a kind, and the height of the
\* header (BeginBlock) or of the request (EndBlock).
Requests ==
    [kind : Kinds \ {"BeginBlock", "EndBlock", "ApplySnapshotChunk"},
     h : {0}, index : {0}, sender : {""}]
        \cup [kind : {"BeginBlock", "EndBlock"}, h : Heights, index : {0},
              sender : {""}]
        \cup [kind : {"ApplySnapshotChunk"}, h : {0}, index : Indexes,
              sender : Senders]

\* The writes a handler of the given kind leaves in its inner overlay: puts
\* of a value of its own and deletes.
HandlerWrites(kind) == [Keys -> {Absent, Tomb, kind}]

\* The state after ABCIStateMachine::new on a store at height h.
InitAt(h) ==
    /\ app = TRUE
    /\ store = TRUE
    /\ merk = EmptyKV
    /\ merkHeight = h
    /\ mempool_state = Some(EmptyMap)
    /\ consensus_state = Some(EmptyMap)
    /\ height = 0
    /\ skip_init_chain \in BOOLEAN
    /\ header = None
    /\ shutdown = None
    /\ shutdown_notifier = FALSE
    /\ stop_height \in StopHeights
    /\ epc = "poll"
    /\ cur = NoReq
    /\ result = NoResult
    /\ seen = NoSeen
    /\ prev = NoPrev
    /\ committed = EmptyKV
    /\ wpc = [w \in Workers |-> "check"]
    /\ nreq = 0
    /\ nrecv = 0
    /\ nreply = 0

\* Nothing has been handed to the envelope codec.
NoBytes == [head |-> <<>>, pad |-> 0]
NoValue == [call |-> "none", shape |-> "none", of |-> NoBytes]
NoDecoded == [ok |-> FALSE, value |-> NoValue, err |-> "", tried |-> <<>>]
CodecIdle ==
    /\ call = NoBytes
    /\ bytes = NoBytes
    /\ decoded = NoDecoded
    /\ cpc = "idle"

\* No operation on a view yet.
NoOut == [op |-> "none", key |-> <<>>, value |-> <<>>, result |-> None]
\* No view has been made of the store.
StoreIdle ==
    /\ backing = <<>>
    /\ prefix = <<>>
    /\ path = <<>>
    /\ out = NoOut
    /\ spc = "idle"

Addresses == {"a1", "a2"}
\* No call of Accounts yet.
NoRet == [op |-> "none", signer |-> "", to |-> "", amount |-> 0, result |-> ""]
\* Accounts as constructed: no account, transfers disabled, no exception.
AccountsDefault ==
    /\ accounts = [a \in Addresses |-> None]
    /\ transfers_allowed = FALSE
    /\ transfer_exceptions = {}
    /\ ret = NoRet
AccountsIdle == AccountsDefault /\ paid = None

\* No method of the plugin has been called.
NoGiven == [fn |-> "none", shape |-> "none", arg |-> ""]
PluginIdle ==
    /\ given = NoGiven
    /\ invoked = <<>>
    /\ returned = ""
    /\ ncalls = 0

\* No call has been handed to the client.
NoSent == [kind |-> "none", call |-> ""]
NoRpc == [made |-> FALSE, ok |-> FALSE, check_tx |-> 0, deliver_tx |-> 0]
ClientIdle ==
    /\ sent = NoSent
    /\ broadcast = <<>>
    /\ rpc = NoRpc
    /\ answer = ""
    /\ nsent = 0

\* The modules beside the dispatcher are not in use.
LibIdle ==
    CodecIdle /\ StoreIdle /\ AccountsIdle /\ PluginIdle /\ ClientIdle

\* A fresh store.
Init == InitAt(0) /\ LibIdle

\* A store reopened at a height it was committed at before.
RestartInit == (\E h \in Heights : InitAt(h)) /\ LibIdle


(***************************************************************************)
(* The effect of each handler of run on the parked fields, as a record of  *)
(* their new values.  wr is the inner overlay the application handler      *)
(* left, outer the parked overlay the request wraps, kv the store.         *)
(***************************************************************************)
\* Variant of InitChainEffect: the consensus overlay is parked without
\* being flushed into the store.
InitChainEffectNoStoreFlush(wr, outer, kv) ==
    [consensus_state |-> FlushBuf(wr, outer), kv |-> kv]

\* InitChain: the inner overlay is flushed into the consensus overlay, the
\* consensus overlay into the store, and an empty overlay is parked.
InitChainEffect(wr, outer, kv) ==
    [consensus_state |-> EmptyMap, kv |-> FlushStore(FlushBuf(wr, outer), kv)]

\* Variant of BeginBlockEffect: the consensus overlay is flushed on into
\* the store, as DeliverTx does.
BeginBlockEffectIntoStore(wr, outer, kv) ==
    [consensus_state |-> EmptyMap, kv |-> FlushStore(FlushBuf(wr, outer), kv)]

\* BeginBlock: the inner overlay is flushed into the consensus overlay,
\* which is parked with into_map.
BeginBlockEffect(wr, outer, kv) ==
    [consensus_state |-> FlushBuf(wr, outer), kv |-> kv]

\* Variant of DeliverTxEffect: the consensus overlay is parked without
\* being flushed into the store, as BeginBlock does.
DeliverTxEffectNoStoreFlush(wr, outer, kv) ==
    [consensus_state |-> FlushBuf(wr, outer), kv |-> kv]

\* DeliverTx: the inner overlay is flushed into the consensus overlay and
\* the consensus overlay into the store; into_map parks the drained map.
DeliverTxEffect(wr, outer, kv) ==
    [consensus_state |-> EmptyMap, kv |-> FlushStore(FlushBuf(wr, outer), kv)]

\* EndBlock: as BeginBlock.
EndBlockEffect(wr, outer, kv) ==
    [consensus_state |-> FlushBuf(wr, outer), kv |-> kv]

\* Variant of CheckTxEffect: the handler's writes are dropped and the
\* mempool overlay is parked as it was found.
CheckTxEffectDropsWrites(wr, outer, kv) ==
    [mempool_state |-> outer, kv |-> kv]

\* Variant of CheckTxEffect: the mempool overlay is flushed on into the
\* store.
CheckTxEffectIntoStore(wr, outer, kv) ==
    [mempool_state |-> EmptyMap, kv |-> FlushStore(FlushBuf(wr, outer), kv)]

\* CheckTx: the inner overlay is flushed into the mempool overlay.
CheckTxEffect(wr, outer, kv) ==
    [mempool_state |-> FlushBuf(wr, outer), kv |-> kv]

\* Variant of CommitEffect: the mempool overlay is not replaced.
CommitEffectKeepsMempool(outer, mem, kv, hdr) ==
    [kv |-> FlushStore(outer, kv), height |-> hdr,
     consensus_state |-> EmptyMap, mempool_state |-> mem]

\* Commit: the consensus overlay is flushed into the store, the store
\* commits the header (MemStore::commit sets its height to the header's)
\* and both overlays are replaced by empty ones.
CommitEffect(outer, mem, kv, hdr) ==
    [kv |-> FlushStore(outer, kv), height |-> hdr,
     consensus_state |-> EmptyMap, mempool_state |-> EmptyMap]

\* Variant of CommitReply: the root hash is read before the flush.
CommitReplyBeforeFlush(before, after) == Res("Commit", 0, 0, RootHash(before))

\* Commit's reply: the root hash of the store read after the commit.
CommitReply(before, after) == Res("Commit", 0, 0, RootHash(after))

\* Variant of InfoReply: the root hash is reported at height 0 too.
InfoReplyAlwaysHash(kv, h) == Res("Info", 0, h, RootHash(kv))

\* Info's reply: the store's height and, above height 0, its root hash.
InfoReply(kv, h) ==
    Res("Info", 0, h, IF h = 0 THEN EmptyHash ELSE RootHash(kv))

\* Variant of QueryEffect: the store is not put back into self.store.
QueryEffectStoreNotReplaced(a, st) == [app |-> a, store |-> FALSE]

\* Query: the store and the application are taken, lent to the handler
\* (the store as a shared handle the contract only reads) and put back.
QueryEffect(a, st) == [app |-> a, store |-> st]

\* Variant of QueryErrReply: log and info are left at their defaults.
QueryErrReplyNoText(err, h) ==
    QueryRes(1, NoText, NoText, h, <<>>, <<>>, None)

\* What unwrap_or_else makes of the query handler's error: code 1, the
\* error's text as log and info, self.height, empty key and value, no proof.
QueryErrReply(err, h) == QueryRes(1, err, err, h, <<>>, <<>>, None)

\* What a query handler that returns Ok answers: a code of its own, and a
\* key, value and proof the application made.
QueryOkReply(code) ==
    QueryRes(code, NoText, NoText, 0, <<"k1">>, <<"app">>, Some("proof"))

\* ResponseApplySnapshotChunk: the fields of Res and those it adds.
SnapshotRes(res, refetch, reject) ==
    [kind |-> "ApplySnapshotChunk", code |-> 0, height |-> 0,
     hash |-> EmptyHash, result |-> res, refetch_chunks |-> refetch,
     reject_senders |-> reject]

\* Variant of ApplySnapshotChunkReply: a rejected chunk is answered with
\* RETRY alone.
ApplySnapshotChunkReplyBare(accepted, index, sender) ==
    IF accepted THEN SnapshotRes(1, <<>>, <<>>) ELSE SnapshotRes(3, <<>>, <<>>)

\* ApplySnapshotChunk's reply: ACCEPT when the store took the chunk, else
\* RETRY with the request's index to refetch and its sender to reject.
ApplySnapshotChunkReply(accepted, index, sender) ==
    IF accepted THEN SnapshotRes(1, <<>>, <<>>)
    ELSE SnapshotRes(3, <<index>>, <<sender>>)

\* Variant of PastStopHeight: the stop height itself is refused too.
PastStopHeightInclusive(stop, h) == IsSome(stop) /\ h >= Unwrap(stop)

\* The stop-height check of BeginBlock.
PastStopHeight(stop, h) == IsSome(stop) /\ h > Unwrap(stop)

\* Variant of SkipInitChain: the configuration is not looked at.
SkipInitChainIgnored(skip) == FALSE

\* InitChain returns the default reply at once when skip_init_chain is set.
SkipInitChain(skip) == skip

\* The stop-height check of listen after a Commit.
ReachedStopHeight(stop, h) == IsSome(stop) /\ h >= Unwrap(stop)

\* The codes an application puts into a reply it returns with Ok.
AppCodes == {0, 1}

(***************************************************************************)
(* The I/O workers (Worker::new).                                          *)
(***************************************************************************)
\* Top of the worker's loop: a set fatal flag closes the connection.
WorkerCheck(w) ==
    /\ wpc[w] = "check"
    /\ wpc' = [wpc EXCEPT ![w] = IF IsSome(shutdown) THEN "closed" ELSE "read"]
    /\ UNCHANGED <<libVars, machine, config, shutdown, shutdown_notifier, epc, cur,
                   result, seen, prev, nreq, counters>>

\* conn.read returns a request.  Nothing looks at the request before the
\* executor receives it, so its content is drawn at the rendezvous (Recv).
WorkerRead(w) ==
    /\ wpc[w] = "read"
    /\ nreq < MaxReqs
    /\ wpc' = [wpc EXCEPT ![w] = "send"]
    /\ nreq' = nreq + 1
    /\ UNCHANGED <<libVars, machine, config, shutdown, shutdown_notifier, epc, cur,
                   result, seen, prev, counters>>

\* Variant of WorkerReadErr: the worker goes on to its next iteration.
WorkerReadErrRetries(w) ==
    /\ wpc[w] = "read"
    /\ wpc' = [wpc EXCEPT ![w] = "check"]
    /\ UNCHANGED <<libVars, machine, config, shutdown, shutdown_notifier, epc, cur,
                   result, seen, prev, nreq, counters>>

\* conn.read fails: the worker sets the fatal flag and returns, which
\* ends its thread and drops conn.
WorkerReadErr(w) ==
    /\ wpc[w] = "read"
    /\ shutdown' = Some("ABCI2")
    /\ wpc' = [wpc EXCEPT ![w] = "returned"]
    /\ UNCHANGED <<libVars, machine, config, shutdown_notifier, epc, cur, result, seen,
                   prev, nreq, counters>>

\* req_sender.send fails once the executor has dropped the receiver.
WorkerSendErr(w) ==
    /\ wpc[w] = "send"
    /\ epc \in {"exited", "panicked"}
    /\ wpc' = [wpc EXCEPT ![w] = "broke"]
    /\ UNCHANGED <<libVars, machine, config, shutdown, shutdown_notifier, epc, cur,
                   result, seen, prev, nreq, counters>>

\* conn.write(res): the reply goes out on the connection.
WorkerWrite(w) ==
    /\ wpc[w] = "write"
    /\ wpc' = [wpc EXCEPT ![w] = "check"]
    /\ UNCHANGED <<libVars, machine, config, shutdown, shutdown_notifier, epc, cur,
                   result, seen, prev, nreq, counters>>

(***************************************************************************)
(* The executor (ABCIStateMachine::listen).                                *)
(***************************************************************************)
\* Variant of Poll: the fatal flag is not looked at.
PollIgnoresFlag ==
    /\ epc = "poll"
    /\ epc' = "recv"
    /\ UNCHANGED <<libVars, machine, config, shutdown, shutdown_notifier, cur, result,
                   seen, prev, workerVars, counters>>

\* Top of the loop: a set fatal flag sets the notifier and returns.
Poll ==
    /\ epc = "poll"
    /\ IF IsSome(shutdown)
       THEN shutdown_notifier' = TRUE /\ epc' = "exited"
       ELSE shutdown_notifier' = shutdown_notifier /\ epc' = "recv"
    /\ UNCHANGED <<libVars, machine, config, shutdown, cur, result, seen, prev,
                   workerVars, counters>>

\* recv_timeout elapses: continue.
RecvTimeout ==
    /\ epc = "recv"
    /\ epc' = "poll"
    /\ UNCHANGED <<libVars, machine, config, shutdown, shutdown_notifier, cur, result,
                   seen, prev, workerVars, counters>>

\* Variant of CanRecv: a request is also taken while the reply to the
\* previous one is still to be sent.
CanRecvWhileBusy == epc \in {"recv", "ran"}

\* The executor can take a request only at its recv_timeout.
CanRecv == epc = "recv"

\* What is remembered of a request whose reply has been sent: the reply of
\* a Commit and the writes a DeliverTx flushed into the store.
Summary ==
    IF cur.kind = "Commit"
    THEN [kind |-> "Commit", res |-> result.res, expect |-> EmptyMap]
    ELSE IF cur.kind = "DeliverTx"
    THEN [kind |-> "DeliverTx", res |-> NoRes,
          expect |-> FlushBuf(seen.wr, seen.pend)]
    ELSE NoPrev

\* Variant of Recv: the worker does not wait for the reply and goes on to
\* its next iteration.
RecvWorkerGoesOn(w) ==
    /\ CanRecv
    /\ wpc[w] = "send"
    /\ \E r \in Requests :
        cur' = [kind |-> r.kind, h |-> r.h, index |-> r.index,
                sender |-> r.sender, w |-> w, seq |-> nrecv + 1,
                flagged |-> IsSome(shutdown)]
    /\ wpc' = [wpc EXCEPT ![w] = "check"]
    /\ epc' = "run"
    /\ nrecv' = nrecv + 1
    /\ UNCHANGED <<libVars, machine, config, shutdown, shutdown_notifier, result, seen,
                   prev, nreq, nreply>>

\* The rendezvous of a worker's send with the executor's recv_timeout.
\* flagged records whether the fatal flag was set when the request was
\* taken.
Recv(w) ==
    /\ CanRecv
    /\ wpc[w] = "send"
    /\ \E r \in Requests :
        cur' = [kind |-> r.kind, h |-> r.h, index |-> r.index,
                sender |-> r.sender, w |-> w, seq |-> nrecv + 1,
                flagged |-> IsSome(shutdown)]
    /\ wpc' = [wpc EXCEPT ![w] = "wait"]
    /\ epc' = "run"
    /\ nrecv' = nrecv + 1
    /\ UNCHANGED <<libVars, machine, config, shutdown, shutdown_notifier, result, seen,
                   prev, nreq, nreply>>

\* Variant of Reply: the loop goes on without sending the reply.
ReplyDropped ==
    /\ epc = "ran"
    /\ result.state = "ok"
    /\ epc' = "poll"
    /\ prev' = NoPrev
    /\ cur' = NoReq
    /\ result' = NoResult
    /\ seen' = NoSeen
    /\ UNCHANGED <<libVars, machine, config, shutdown, shutdown_notifier, workerVars,
                   counters>>

\* run returned Ok: cb.send hands the reply to the waiting worker; after a
\* Commit the stop height is checked.
Reply ==
    /\ epc = "ran"
    /\ result.state = "ok"
    /\ wpc[cur.w] = "wait"
    /\ wpc' = [wpc EXCEPT ![cur.w] = "write"]
    /\ nreply' = nreply + 1
    /\ prev' = Summary
    /\ IF cur.kind = "Commit" /\ ReachedStopHeight(stop_height, height)
       THEN shutdown_notifier' = TRUE /\ epc' = "exited"
       ELSE shutdown_notifier' = shutdown_notifier /\ epc' = "poll"
    /\ cur' = NoReq
    /\ result' = NoResult
    /\ seen' = NoSeen
    /\ UNCHANGED <<libVars, machine, config, shutdown, nreq, nrecv>>

\* run returned Err: the fatal flag and the notifier are set, listen returns.
ListenErr ==
    /\ epc = "ran"
    /\ result.state = "err"
    /\ shutdown' = Some("ABCI")
    /\ shutdown_notifier' = TRUE
    /\ epc' = "exited"
    /\ UNCHANGED <<libVars, machine, config, cur, result, seen, prev, workerVars,
                   counters>>


(***************************************************************************)
(* ABCIStateMachine::run, one action per kind of request.                  *)
(***************************************************************************)
listenVars ==
    <<libVars, config, shutdown, shutdown_notifier, cur, prev, workerVars,
      counters>>

\* What the handler of the request read (view), what it left in its inner
\* overlay (wr) and the parked overlay the request wrapped (pend).  A Commit
\* runs no handler: view is the store, wr the mempool overlay and pend the
\* consensus overlay it found.
Seen(ok, view, wr, outer) ==
    [handler |-> IF ok THEN "ok" ELSE "err", view |-> view, wr |-> wr,
     pend |-> outer, err |-> NoText]

\* req.value is None.
RunEmpty ==
    /\ epc = "run" /\ cur.kind = "Empty"
    /\ result' = Err
    /\ seen' = NoSeen
    /\ epc' = "ran"
    /\ UNCHANGED <<machine, listenVars>>

RunInfo ==
    /\ epc = "run" /\ cur.kind = "Info"
    /\ result' = Ok(InfoReply(merk, merkHeight))
    /\ seen' = NoSeen
    /\ epc' = "ran"
    /\ UNCHANGED <<machine, listenVars>>

\* Flush, Echo, SetOption: the default reply.
RunDefault ==
    /\ epc = "run" /\ cur.kind \in {"Flush", "Echo", "SetOption"}
    /\ result' = Ok(Res(cur.kind, 0, 0, EmptyHash))
    /\ seen' = NoSeen
    /\ epc' = "ran"
    /\ UNCHANGED <<machine, listenVars>>

\* Query: the application reads the store itself; an error of the
\* application becomes a reply with code 1 and self.height.
RunQuery ==
    /\ epc = "run" /\ cur.kind = "Query"
    /\ \/ \E code \in AppCodes :
            /\ result' = Ok(QueryOkReply(code))
            /\ seen' = Seen(TRUE, merk, EmptyMap, EmptyMap)
       \/ \E e \in QueryErrors :
            /\ result' = Ok(QueryErrReply(e, height))
            /\ seen' = [Seen(FALSE, merk, EmptyMap, EmptyMap) EXCEPT !.err = e]
    /\ LET eff == QueryEffect(app, store)
       IN  app' = eff.app /\ store' = eff.store
    /\ epc' = "ran"
    /\ UNCHANGED <<merk, merkHeight, mempool_state, consensus_state, height,
                   header, committed>>
    /\ UNCHANGED listenVars

RunInitChain ==
    /\ epc = "run" /\ cur.kind = "InitChain"
    /\ epc' = "ran"
    /\ IF SkipInitChain(skip_init_chain)
       THEN /\ result' = Ok(Res("InitChain", 0, 0, EmptyHash))
            /\ seen' = NoSeen
            /\ UNCHANGED machine
       ELSE \E ok \in BOOLEAN, wr \in HandlerWrites("InitChain") :
            LET outer == Unwrap(consensus_state)
                eff == InitChainEffect(wr, outer, merk)
            IN  /\ seen' = Seen(ok, WrappedView(outer, merk), wr, outer)
                /\ IF ok
                   THEN /\ result' = Ok(Res("InitChain", 0, 0, EmptyHash))
                        /\ merk' = eff.kv
                        /\ consensus_state' = Some(eff.consensus_state)
                        /\ committed' = FlushStore(wr, committed)
                        /\ UNCHANGED <<app, store>>
                   ELSE /\ result' = Err
                        /\ app' = FALSE /\ store' = FALSE
                        /\ consensus_state' = None
                        /\ UNCHANGED <<merk, committed>>
                /\ UNCHANGED <<merkHeight, mempool_state, height, header>>
    /\ UNCHANGED listenVars

RunBeginBlock ==
    /\ epc = "run" /\ cur.kind = "BeginBlock"
    /\ epc' = "ran"
    /\ IF PastStopHeight(stop_height, cur.h)
       THEN /\ result' = Err
            /\ seen' = NoSeen
            /\ UNCHANGED machine
       ELSE \E ok \in BOOLEAN, wr \in HandlerWrites("BeginBlock") :
            LET outer == Unwrap(consensus_state)
                eff == BeginBlockEffect(wr, outer, merk)
            IN  /\ header' = Some(cur.h)
                /\ seen' = Seen(ok, WrappedView(outer, merk), wr, outer)
                /\ IF ok
                   THEN /\ result' = Ok(Res("BeginBlock", 0, 0, EmptyHash))
                        /\ merk' = eff.kv
                        /\ consensus_state' = Some(eff.consensus_state)
                        /\ UNCHANGED <<app, store>>
                   ELSE /\ result' = Err
                        /\ app' = FALSE /\ store' = FALSE
                        /\ consensus_state' = None
                        /\ UNCHANGED merk
                /\ UNCHANGED <<merkHeight, mempool_state, height, committed>>
    /\ UNCHANGED listenVars

RunDeliverTx ==
    /\ epc = "run" /\ cur.kind = "DeliverTx"
    /\ epc' = "ran"
    /\ \E ok \in BOOLEAN, code \in AppCodes, wr \in HandlerWrites("DeliverTx") :
        LET outer == Unwrap(consensus_state)
            eff == DeliverTxEffect(wr, outer, merk)
        IN  /\ seen' = Seen(ok, WrappedView(outer, merk), wr, outer)
            /\ IF ok
               THEN /\ result' = Ok(Res("DeliverTx", code, 0, EmptyHash))
                    /\ merk' = eff.kv
                    /\ consensus_state' = Some(eff.consensus_state)
                    /\ UNCHANGED <<app, store>>
               ELSE /\ result' = Err
                    /\ app' = FALSE /\ store' = FALSE
                    /\ consensus_state' = None
                    /\ UNCHANGED merk
    /\ UNCHANGED <<merkHeight, mempool_state, height, header, committed>>
    /\ UNCHANGED listenVars

RunEndBlock ==
    /\ epc = "run" /\ cur.kind = "EndBlock"
    /\ epc' = "ran"
    /\ height' = cur.h
    /\ \E ok \in BOOLEAN, wr \in HandlerWrites("EndBlock") :
        LET outer == Unwrap(consensus_state)
            eff == EndBlockEffect(wr, outer, merk)
        IN  /\ seen' = Seen(ok, WrappedView(outer, merk), wr, outer)
            /\ IF ok
               THEN /\ result' = Ok(Res("EndBlock", 0, 0, EmptyHash))
                    /\ merk' = eff.kv
                    /\ consensus_state' = Some(eff.consensus_state)
                    /\ UNCHANGED <<app, store>>
               ELSE /\ result' = Err
                    /\ app' = FALSE /\ store' = FALSE
                    /\ consensus_state' = None
                    /\ UNCHANGED merk
    /\ UNCHANGED <<merkHeight, mempool_state, header, committed>>
    /\ UNCHANGED listenVars

\* Commit: self.header.clone().unwrap() panics when no header was stored,
\* after the consensus overlay has been flushed into the store.
RunCommit ==
    /\ epc = "run" /\ cur.kind = "Commit"
    /\ seen' = Seen(TRUE, merk, Unwrap(mempool_state), Unwrap(consensus_state))
    /\ IF header = None
       THEN /\ merk' = FlushStore(Unwrap(consensus_state), merk)
            /\ store' = FALSE
            /\ consensus_state' = None
            /\ result' = Panic
            /\ epc' = "panicked"
            /\ UNCHANGED <<merkHeight, mempool_state, committed>>
       ELSE LET eff ==
                    CommitEffect(Unwrap(consensus_state), Unwrap(mempool_state),
                                 merk, Unwrap(header))
            IN  /\ merk' = eff.kv
                /\ merkHeight' = eff.height
                /\ mempool_state' = Some(eff.mempool_state)
                /\ consensus_state' = Some(eff.consensus_state)
                /\ committed' = eff.kv
                /\ result' = Ok(CommitReply(merk, eff.kv))
                /\ epc' = "ran"
                /\ UNCHANGED store
    /\ UNCHANGED <<app, height, header>>
    /\ UNCHANGED listenVars

RunCheckTx ==
    /\ epc = "run" /\ cur.kind = "CheckTx"
    /\ epc' = "ran"
    /\ \E ok \in BOOLEAN, code \in AppCodes, wr \in HandlerWrites("CheckTx") :
        LET outer == Unwrap(mempool_state)
            eff == CheckTxEffect(wr, outer, merk)
        IN  /\ seen' = Seen(ok, WrappedView(outer, merk), wr, outer)
            /\ IF ok
               THEN /\ result' = Ok(Res("CheckTx", code, 0, EmptyHash))
                    /\ merk' = eff.kv
                    /\ mempool_state' = Some(eff.mempool_state)
                    /\ UNCHANGED <<app, store>>
               ELSE /\ result' = Err
                    /\ app' = FALSE /\ store' = FALSE
                    /\ mempool_state' = None
                    /\ UNCHANGED merk
    /\ UNCHANGED <<merkHeight, consensus_state, height, header, committed>>
    /\ UNCHANGED listenVars

\* ApplySnapshotChunk: the store takes the chunk or refuses it; either way
\* run returns Ok.  The store is borrowed in place, nothing is taken.
RunApplySnapshotChunk ==
    /\ epc = "run" /\ cur.kind = "ApplySnapshotChunk"
    /\ \E accepted \in BOOLEAN :
        /\ result' = Ok(ApplySnapshotChunkReply(accepted, cur.index, cur.sender))
        /\ seen' = Seen(accepted, merk, EmptyMap, EmptyMap)
    /\ epc' = "ran"
    /\ UNCHANGED <<machine, listenVars>>

Run ==
    \/ RunEmpty
    \/ RunInfo
    \/ RunDefault
    \/ RunQuery
    \/ RunInitChain
    \/ RunBeginBlock
    \/ RunDeliverTx
    \/ RunEndBlock
    \/ RunCommit
    \/ RunCheckTx
    \/ RunApplySnapshotChunk

Next ==
    \/ \E w \in Workers : WorkerCheck(w)
    \/ \E w \in Workers : WorkerRead(w)
    \/ \E w \in Workers : WorkerReadErr(w)
    \/ \E w \in Workers : WorkerSendErr(w)
    \/ \E w \in Workers : WorkerWrite(w)
    \/ Poll
    \/ RecvTimeout
    \/ \E w \in Workers : Recv(w)
    \/ Run
    \/ Reply
    \/ ListenErr

Spec == Init /\ [][Next]_vars

\* The steps of the executor thread.
Executor ==
    \/ Poll
    \/ RecvTimeout
    \/ \E w \in Workers : Recv(w)
    \/ Run
    \/ Reply
    \/ ListenErr

\* The executor thread is scheduled as long as it has a step to take:
\* recv_timeout returns after a second at the latest and run returns.
LiveSpec == Spec /\ WF_vars(Executor)

\* The dispatcher started on a store that was committed before.
RestartSpec == RestartInit /\ [][Next]_vars


(***************************************************************************)
(* The envelope codec (plugins/sdk_compat.rs): Encode and Decode of        *)
(* Call<T> and Decode of sdk::Tx.  A byte string is written as its first   *)
(* bytes, head, followed by pad bytes of value Filler, so that strings of  *)
(* the size of the cap can be told from longer ones.  A native call stands *)
(* for its own encoding, the bytes T's encode writes for it.               *)
(***************************************************************************)
MAX_CALL_SIZE == 65535
NATIVE_CALL_FLAG == 255
\* b'{'
OpenBrace == 123
\* The byte the padding of an envelope is made of.
Filler == 0
\* The bytes written out: the native flag, '{' and one other byte.
HeadBytes == {NATIVE_CALL_FLAG, OpenBrace, 10}
Heads == UNION {[1..n -> HeadBytes] : n \in 0..MaxHead}
\* No padding, or padding that brings the envelope to the size cap.
Pads == {0} \cup ((MAX_CALL_SIZE - 2)..MAX_CALL_SIZE)
Envelopes == [head : Heads, pad : Pads]

\* bytes.len()
Size(b) == Len(b.head) + b.pad
\* bytes.first() of a string that is not empty
First(b) == IF b.head # <<>> THEN b.head[1] ELSE Filler
\* &bytes[1..]
Rest(b) ==
    IF b.head # <<>> THEN [head |-> Tail(b.head), pad |-> b.pad]
    ELSE [head |-> <<>>, pad |-> b.pad - 1]
\* A byte written in front of a string.
Prepend(x, b) == [head |-> <<x>> \o b.head, pad |-> b.pad]

\* The values decode returns: Call::Native(T), Call::Sdk(Tx::Amino) and
\* Call::Sdk(Tx::Protobuf), each with the bytes it was decoded from.
Native(b) == [call |-> "Native", shape |-> "Native", of |-> b]
Amino(b) == [call |-> "Sdk", shape |-> "Amino", of |-> b]
Protobuf(b) == [call |-> "Sdk", shape |-> "Protobuf", of |-> b]

\* What decode returns, with the decoders it has invoked and their input.
DecodeOk(value, tried) ==
    [ok |-> TRUE, value |-> value, err |-> "", tried |-> tried]
DecodeErr(e, tried) ==
    [ok |-> FALSE, value |-> NoValue, err |-> e, tried |-> tried]

\* Variant of OverCap: an envelope of the size of the cap is refused too.
OverCapInclusive(n) == n >= MAX_CALL_SIZE

\* bytes.len() > MAX_CALL_SIZE
OverCap(n) == n > MAX_CALL_SIZE

\* Variant of NativePayload: the flag is handed to T::decode as well.
NativePayloadWhole(b) == b

\* What a native envelope hands to T::decode: all but the flag.
NativePayload(b) == Rest(b)

\* Decode for sdk::Tx.  accepts says whether the JSON or Protobuf decoder
\* takes the bytes it is given.
TxDecode(b, accepts) ==
    IF OverCap(Size(b)) \/ Size(b) = 0
    THEN DecodeErr("UnexpectedByte(0)", <<>>)
    ELSE IF First(b) = OpenBrace
    THEN IF accepts
         THEN DecodeOk(Amino(b), <<<<"serde_json::from_slice", b>>>>)
         ELSE DecodeErr("UnexpectedByte(123)", <<<<"serde_json::from_slice", b>>>>)
    ELSE IF accepts
         THEN DecodeOk(Protobuf(b), <<<<"cosmrs::Tx::from_bytes", b>>>>)
         ELSE DecodeErr("InvalidData", <<<<"cosmrs::Tx::from_bytes", b>>>>)

\* Decode for Call<T>.  accepts says whether the decoder the envelope is
\* handed to takes the bytes it is given.
CallDecode(b, accepts) ==
    IF OverCap(Size(b))
    THEN DecodeErr("UnexpectedByte(0)", <<>>)
    ELSE IF Size(b) = 0
    THEN DecodeErr("UnexpectedEof", <<>>)
    ELSE IF First(b) = NATIVE_CALL_FLAG
    THEN LET payload == NativePayload(b)
         IN  IF accepts
             THEN DecodeOk(Native(payload), <<<<"T::decode", payload>>>>)
             ELSE DecodeErr("T::decode", <<<<"T::decode", payload>>>>)
    ELSE TxDecode(b, accepts)

\* Encode for Call<T>, of Call::Native(c): the flag, then c's encoding.
CallEncode(c) == Prepend(NATIVE_CALL_FLAG, c)
\* encoding_length of Call::Native(c)
EncodingLength(c) == Size(c) + 1

\* The dispatcher as constructed, with nothing running.
Parked == InitAt(0) /\ skip_init_chain = FALSE /\ stop_height = None

\* An envelope to decode, or a native call to encode.
CodecInit ==
    /\ Parked
    /\ StoreIdle
    /\ AccountsIdle
    /\ PluginIdle
    /\ ClientIdle
    /\ decoded = NoDecoded
    /\ \/ cpc = "input" /\ bytes \in Envelopes /\ call = NoBytes
       \/ cpc = "call" /\ call \in Envelopes /\ bytes = NoBytes

\* Call::decode on the envelope.
DecodeBytes ==
    /\ cpc = "input"
    /\ \E accepts \in BOOLEAN : decoded' = CallDecode(bytes, accepts)
    /\ cpc' = "decoded"
    /\ UNCHANGED <<notCodec, call, bytes>>

\* Call::Native(call).encode()
EncodeNative ==
    /\ cpc = "call"
    /\ bytes' = CallEncode(call)
    /\ cpc' = "encoded"
    /\ UNCHANGED <<notCodec, call, decoded>>

\* Call::decode on what encode wrote.  T::decode takes what T's encode
\* wrote and gives the call back.
DecodeEncoded ==
    /\ cpc = "encoded"
    /\ decoded' = CallDecode(bytes, TRUE)
    /\ cpc' = "roundtrip"
    /\ UNCHANGED <<notCodec, call, bytes>>

CodecNext ==
    \/ DecodeBytes
    \/ EncodeNative
    \/ DecodeEncoded

CodecSpec == CodecInit /\ [][CodecNext]_vars

(***************************************************************************)
(* The prefix view (store/store.rs): Store::new, sub, and Read and Write   *)
(* for Store over a backing map.  A map is a function from the keys it     *)
(* holds to their values; keys and values are sequences of bytes.          *)
(***************************************************************************)
\* Most calls of sub that make one view.
MaxSubs == 2
\* Longest key handed to sub or to an operation of the view.
MaxKey == 1
Bytes == 0..2
KeysUpTo(n) == UNION {[1..m -> Bytes] : m \in 0..n}
ViewKeys == KeysUpTo(MaxKey)
PutValues == {<<7>>}

\* The entries put into the backing store, in the order they are put.
SeedEntries ==
    <<<<<<0, 0>>, <<0>>>>, <<<<1, 0>>, <<1>>>>, <<<<1, 1>>, <<2>>>>,
      <<<<2, 0>>, <<3>>>>, <<<<1, 2, 0>>, <<4>>>>, <<<<1, 2, 1>>, <<5>>>>>>
MapOf(entries) ==
    [k \in {e[1] : e \in entries} |->
        (CHOOSE e \in entries : e[1] = k)[2]]

\* Lexicographic order of byte strings, the order of the backing map.
RECURSIVE Less(_, _)
Less(a, b) ==
    IF a = <<>> THEN b # <<>>
    ELSE IF b = <<>> THEN FALSE
    ELSE IF a[1] # b[1] THEN a[1] < b[1]
    ELSE Less(Tail(a), Tail(b))

\* The backing map's own operations.
MapGet(m, k) == IF k \in DOMAIN m THEN Some(m[k]) ELSE None
MapGetNext(m, k) ==
    LET after == {j \in DOMAIN m : Less(k, j)}
    IN  IF after = {} THEN None
        ELSE LET least == CHOOSE j \in after :
                              \A i \in after : i = j \/ Less(j, i)
             IN  Some(<<least, m[least]>>)
MapPut(m, k, v) ==
    [j \in DOMAIN m \cup {k} |-> IF j = k THEN v ELSE m[j]]
MapDelete(m, k) == [j \in DOMAIN m \ {k} |-> m[j]]

\* Variant of Concat: the key goes in front of the prefix.
ConcatKeyFirst(a, b) == b \o a

\* concat(a, b)
Concat(a, b) == a \o b

\* Read for Store
StoreGet(m, pre, key) == MapGet(m, Concat(pre, key))
StoreGetNext(m, pre, key) == MapGetNext(m, Concat(pre, key))
\* Write for Store
StorePut(m, pre, key, value) == MapPut(m, Concat(pre, key), value)
StoreDelete(m, pre, key) == MapDelete(m, Concat(pre, key))

\* Store::new over a backing store that holds the first entries put.
StoreInit ==
    /\ Parked
    /\ CodecIdle
    /\ AccountsIdle
    /\ PluginIdle
    /\ ClientIdle
    /\ \E n \in 0..Len(SeedEntries) :
        backing = MapOf({SeedEntries[i] : i \in 1..n})
    /\ prefix = <<>>
    /\ path = <<>>
    /\ out = NoOut
    /\ spc = "view"

\* view.sub(key)
Sub ==
    /\ spc = "view"
    /\ Len(path) < MaxSubs
    /\ \E key \in ViewKeys :
        /\ prefix' = Concat(prefix, key)
        /\ path' = Append(path, key)
    /\ UNCHANGED <<notStore, backing, out, spc>>

\* view.get(key)
Get ==
    /\ spc = "view"
    /\ \E key \in ViewKeys :
        out' = [op |-> "get", key |-> key, value |-> <<>>,
                result |-> StoreGet(backing, prefix, key)]
    /\ spc' = "used"
    /\ UNCHANGED <<notStore, backing, prefix, path>>

\* view.get_next(key)
GetNext ==
    /\ spc = "view"
    /\ \E key \in ViewKeys :
        out' = [op |-> "get_next", key |-> key, value |-> <<>>,
                result |-> StoreGetNext(backing, prefix, key)]
    /\ spc' = "used"
    /\ UNCHANGED <<notStore, backing, prefix, path>>

\* view.put(key, value)
Put ==
    /\ spc = "view"
    /\ \E key \in ViewKeys, value \in PutValues :
        /\ backing' = StorePut(backing, prefix, key, value)
        /\ out' = [op |-> "put", key |-> key, value |-> value,
                   result |-> None]
    /\ spc' = "used"
    /\ UNCHANGED <<notStore, prefix, path>>

\* view.delete(key)
Delete ==
    /\ spc = "view"
    /\ \E key \in ViewKeys :
        /\ backing' = StoreDelete(backing, prefix, key)
        /\ out' = [op |-> "delete", key |-> key, value |-> <<>>,
                   result |-> None]
    /\ spc' = "used"
    /\ UNCHANGED <<notStore, prefix, path>>

StoreNext ==
    \/ Sub
    \/ Get
    \/ GetNext
    \/ Put
    \/ Delete

StoreSpec == StoreInit /\ [][StoreNext]_vars

(***************************************************************************)
(* The accounts module (coins/accounts.rs).  A call is made with a Signer  *)
(* context that names an address, names none, or is missing, and with or   *)
(* without a Paid context.  A call returns "Ok" or the text of its error.  *)
(***************************************************************************)
\* Largest amount a call moves.
MaxAmount == 2
Amounts == 0..MaxAmount
\* Most coins deposited in all.
MaxSupply == MaxAmount + 1
NoContext == "no Signer context"
NoSigner == "no signer"
Signers == Addresses \cup {NoContext, NoSigner}

\* What a call returns and leaves behind.
Outcome(res, accts, pd) ==
    [result |-> res, accounts |-> accts, paid |-> pd]

\* Accounts::balance
Balance(accts, address) ==
    IF accts[address] = None THEN 0 ELSE Unwrap(accts[address])
\* Accounts::exists
Exists(accts, address) == accts[address] # None

RECURSIVE SumOver(_, _)
SumOver(accts, addrs) ==
    IF addrs = {} THEN 0
    ELSE LET a == CHOOSE x \in addrs : TRUE
         IN  Balance(accts, a) + SumOver(accts, addrs \ {a})
\* All coins held by accounts and by the Paid context.
Supply(accts, pd) ==
    SumOver(accts, Addresses) + (IF pd = None THEN 0 ELSE Unwrap(pd))

\* Accounts::signer: the error it returns, "Ok" when there is a signer.
SignerResult(signer) ==
    IF signer = NoContext THEN "No Signer context available"
    ELSE IF signer = NoSigner THEN "Unauthorized account action"
    ELSE "Ok"

\* Coin::take and Paid::take: whether the amount can be taken.
CanTake(balance, amount) == amount <= balance
\* Variant of GiveTo: the amount replaces the balance.
GiveToOverwrites(accts, address, amount) ==
    [accts EXCEPT ![address] = Some(amount)]

\* entry(address).or_insert_default().give(amount)
GiveTo(accts, address, amount) ==
    [accts EXCEPT ![address] = Some(Balance(accts, address) + amount)]

\* Variant of TakeOwnCoins: a signer without an account is given an empty
\* one to take from.
TakeOwnCoinsDefaultAccount(accts, signer, amount) ==
    IF SignerResult(signer) # "Ok"
    THEN Outcome(SignerResult(signer), accts, None)
    ELSE IF ~CanTake(Balance(accts, signer), amount)
    THEN Outcome("Insufficient funds", accts, None)
    ELSE Outcome("Ok",
            [accts EXCEPT ![signer] = Some(Balance(accts, signer) - amount)],
            None)

\* Accounts::take_own_coins
TakeOwnCoins(accts, signer, amount) ==
    IF SignerResult(signer) # "Ok"
    THEN Outcome(SignerResult(signer), accts, None)
    ELSE IF accts[signer] = None
    THEN Outcome("Insufficient funds", accts, None)
    ELSE IF ~CanTake(Unwrap(accts[signer]), amount)
    THEN Outcome("Insufficient funds", accts, None)
    ELSE Outcome("Ok",
            [accts EXCEPT ![signer] = Some(Unwrap(accts[signer]) - amount)],
            None)

\* Variant of TransferBlocked: the exception set is not looked at.
TransferBlockedForAll(allowed, exceptions, signer) == ~allowed

\* The check of transfer: disabled, and the signer is no exception.
TransferBlocked(allowed, exceptions, signer) ==
    ~allowed /\ signer \notin exceptions

\* Accounts::transfer
TransferOutcome(accts, allowed, exceptions, signer, to, amount) ==
    IF SignerResult(signer) # "Ok"
    THEN Outcome(SignerResult(signer), accts, None)
    ELSE IF TransferBlocked(allowed, exceptions, signer)
    THEN Outcome("Transfers are currently disabled", accts, None)
    ELSE LET taken == TakeOwnCoins(accts, signer, amount)
         IN  IF taken.result # "Ok" THEN taken
             ELSE Outcome("Ok", GiveTo(taken.accounts, to, amount), None)

\* Accounts::take_as_funding
TakeAsFundingOutcome(accts, pd, signer, amount) ==
    LET taken == TakeOwnCoins(accts, signer, amount)
    IN  IF taken.result # "Ok" THEN Outcome(taken.result, accts, pd)
        ELSE IF pd = None
        THEN Outcome("No Paid context found", taken.accounts, pd)
        ELSE Outcome("Ok", taken.accounts, Some(Unwrap(pd) + amount))

\* Accounts::give_own_coins
GiveOwnCoins(accts, pd, signer, amount) ==
    IF SignerResult(signer) # "Ok"
    THEN Outcome(SignerResult(signer), accts, pd)
    ELSE Outcome("Ok", GiveTo(accts, signer, amount), pd)

\* Accounts::give_from_funding
GiveFromFundingOutcome(accts, pd, signer, amount) ==
    IF pd = None THEN Outcome("No Paid context found", accts, pd)
    ELSE IF ~CanTake(Unwrap(pd), amount)
    THEN Outcome("Insufficient funds", accts, pd)
    ELSE GiveOwnCoins(accts, Some(Unwrap(pd) - amount), signer, amount)

\* Accounts::give_from_funding_all
GiveFromFundingAllOutcome(accts, pd, signer) ==
    IF pd = None THEN Outcome("No Paid context found", accts, pd)
    ELSE GiveOwnCoins(accts, Some(0), signer, Unwrap(pd))

\* Accounts::withdraw
WithdrawOutcome(accts, address, amount) ==
    LET opened == GiveTo(accts, address, 0)
    IN  IF ~CanTake(Balance(opened, address), amount)
        THEN Outcome("Insufficient funds", opened, None)
        ELSE Outcome("Ok",
                [opened EXCEPT ![address] = Some(Balance(opened, address) - amount)],
                None)

\* Accounts as constructed, called with or without a Paid context.
AccountsInit ==
    /\ Parked
    /\ CodecIdle
    /\ StoreIdle
    /\ PluginIdle
    /\ ClientIdle
    /\ AccountsDefault
    /\ paid \in {None, Some(0)}

\* accounts.transfer(to, amount)
Transfer ==
    \E signer \in Signers, to \in Addresses, amount \in Amounts :
        LET o == TransferOutcome(accounts, transfers_allowed,
                                 transfer_exceptions, signer, to, amount)
        IN  /\ accounts' = o.accounts
            /\ ret' = [op |-> "transfer", signer |-> signer, to |-> to,
                       amount |-> amount, result |-> o.result]
            /\ UNCHANGED <<notAccounts, transfers_allowed,
                           transfer_exceptions, paid>>

\* accounts.take_as_funding(amount)
TakeAsFunding ==
    \E signer \in Signers, amount \in Amounts :
        LET o == TakeAsFundingOutcome(accounts, paid, signer, amount)
        IN  /\ accounts' = o.accounts
            /\ paid' = o.paid
            /\ ret' = [op |-> "take_as_funding", signer |-> signer,
                       to |-> "", amount |-> amount, result |-> o.result]
            /\ UNCHANGED <<notAccounts, transfers_allowed,
                           transfer_exceptions>>

\* accounts.give_from_funding(amount)
GiveFromFunding ==
    \E signer \in Signers, amount \in Amounts :
        LET o == GiveFromFundingOutcome(accounts, paid, signer, amount)
        IN  /\ accounts' = o.accounts
            /\ paid' = o.paid
            /\ ret' = [op |-> "give_from_funding", signer |-> signer,
                       to |-> "", amount |-> amount, result |-> o.result]
            /\ UNCHANGED <<notAccounts, transfers_allowed,
                           transfer_exceptions>>

\* accounts.give_from_funding_all()
GiveFromFundingAll ==
    \E signer \in Signers :
        LET o == GiveFromFundingAllOutcome(accounts, paid, signer)
        IN  /\ accounts' = o.accounts
            /\ paid' = o.paid
            /\ ret' = [op |-> "give_from_funding_all", signer |-> signer,
                       to |-> "", amount |-> 0, result |-> o.result]
            /\ UNCHANGED <<notAccounts, transfers_allowed,
                           transfer_exceptions>>

\* accounts.deposit(address, coins)
Deposit ==
    \E address \in Addresses, amount \in Amounts :
        /\ Supply(accounts, paid) + amount <= MaxSupply
        /\ accounts' = GiveTo(accounts, address, amount)
        /\ ret' = [op |-> "deposit", signer |-> "", to |-> address,
                   amount |-> amount, result |-> "Ok"]
        /\ UNCHANGED <<notAccounts, transfers_allowed, transfer_exceptions,
                       paid>>

\* accounts.withdraw(address, amount)
Withdraw ==
    \E address \in Addresses, amount \in Amounts :
        LET o == WithdrawOutcome(accounts, address, amount)
        IN  /\ accounts' = o.accounts
            /\ ret' = [op |-> "withdraw", signer |-> "", to |-> address,
                       amount |-> amount, result |-> o.result]
            /\ UNCHANGED <<notAccounts, transfers_allowed,
                           transfer_exceptions, paid>>

\* accounts.allow_transfers(enabled)
AllowTransfers ==
    \E enabled \in BOOLEAN :
        /\ transfers_allowed' = enabled
        /\ ret' = [op |-> "allow_transfers", signer |-> "", to |-> "",
                   amount |-> 0, result |-> "Ok"]
        /\ UNCHANGED <<notAccounts, accounts, transfer_exceptions, paid>>

\* accounts.add_transfer_exception(address)
AddTransferException ==
    \E address \in Addresses :
        /\ transfer_exceptions' = transfer_exceptions \cup {address}
        /\ ret' = [op |-> "add_transfer_exception", signer |-> "",
                   to |-> address, amount |-> 0, result |-> "Ok"]
        /\ UNCHANGED <<notAccounts, accounts, transfers_allowed, paid>>

AccountsNext ==
    \/ Transfer
    \/ TakeAsFunding
    \/ GiveFromFunding
    \/ GiveFromFundingAll
    \/ Deposit
    \/ Withdraw
    \/ AllowTransfers
    \/ AddTransferException

AccountsSpec == AccountsInit /\ [][AccountsNext]_vars

(***************************************************************************)
(* SdkCompatPlugin (plugins/sdk_compat.rs): call, and the lifecycle and    *)
(* query methods it forwards.  The inner layer is the application's: what  *)
(* its convert, call and hooks return is open.                             *)
(***************************************************************************)
\* Most calls made on the plugin.
MaxPluginCalls == 3
InnerCalls == {"c1", "c2"}
Txs == {"tx1", "tx2"}
Contexts == {"ctx1", "ctx2"}
Queries == {"q1", "q2"}
Responses == {"r1", "r2"}
Errors == {"e1", "e2"}
\* Result<()> of the inner layer: "Ok", or an error.
Results == {"Ok"} \cup Errors

\* One invocation of the inner layer: the method, its argument, whether it
\* returned Ok, and the value or the error it returned.
Invocation(fn, arg, ok, res) == [fn |-> fn, arg |-> arg, ok |-> ok, res |-> res]

\* What a method of the plugin invoked and returned.
PluginOutcome(inv, res) == [invoked |-> inv, returned |-> res]

\* Variant of PluginCallOutcome: after a failing convert the inner layer's
\* call is invoked with the Tx itself.
PluginCallOutcomeCallsAnyway(shape, arg, conv, res) ==
    IF shape = "Native"
    THEN PluginOutcome(<<Invocation("call", arg, res = "Ok", res)>>, res)
    ELSE PluginOutcome(
            <<Invocation("convert", arg, conv.ok, conv.res),
              Invocation("call", IF conv.ok THEN conv.res ELSE arg,
                         res = "Ok", res)>>,
            res)

\* SdkCompatPlugin::call.  conv is what the inner layer's convert returns
\* for a Tx, res what its call returns.
PluginCallOutcome(shape, arg, conv, res) ==
    IF shape = "Native"
    THEN PluginOutcome(<<Invocation("call", arg, res = "Ok", res)>>, res)
    ELSE IF conv.ok
    THEN PluginOutcome(
            <<Invocation("convert", arg, TRUE, conv.res),
              Invocation("call", conv.res, res = "Ok", res)>>,
            res)
    ELSE PluginOutcome(<<Invocation("convert", arg, FALSE, conv.res)>>,
                       conv.res)

\* begin_block, end_block, init_chain, abci_query: self.inner's method
\* with the same argument.
ForwardOutcome(fn, arg, ok, res) ==
    PluginOutcome(<<Invocation(fn, arg, ok, res)>>, res)

\* What convert returns: a call of the inner layer, or an error.
Conversions ==
    [ok : {TRUE}, res : InnerCalls] \cup [ok : {FALSE}, res : Errors]

PluginInit ==
    /\ Parked
    /\ CodecIdle
    /\ StoreIdle
    /\ AccountsIdle
    /\ ClientIdle
    /\ PluginIdle

\* plugin.call(call)
PluginCall ==
    /\ ncalls < MaxPluginCalls
    /\ \E shape \in {"Native", "Sdk"}, conv \in Conversions, res \in Results :
        \E arg \in (IF shape = "Native" THEN InnerCalls ELSE Txs) :
            LET o == PluginCallOutcome(shape, arg, conv, res)
            IN  /\ given' = [fn |-> "call", shape |-> shape, arg |-> arg]
                /\ invoked' = o.invoked
                /\ returned' = o.returned
    /\ ncalls' = ncalls + 1
    /\ UNCHANGED notPlugin

\* plugin.begin_block(ctx)
PluginBeginBlock ==
    /\ ncalls < MaxPluginCalls
    /\ \E ctx \in Contexts, res \in Results :
        LET o == ForwardOutcome("begin_block", ctx, res \notin Errors, res)
        IN  /\ given' = [fn |-> "begin_block", shape |-> "none", arg |-> ctx]
            /\ invoked' = o.invoked
            /\ returned' = o.returned
    /\ ncalls' = ncalls + 1
    /\ UNCHANGED notPlugin

\* plugin.end_block(ctx)
PluginEndBlock ==
    /\ ncalls < MaxPluginCalls
    /\ \E ctx \in Contexts, res \in Results :
        LET o == ForwardOutcome("end_block", ctx, res \notin Errors, res)
        IN  /\ given' = [fn |-> "end_block", shape |-> "none", arg |-> ctx]
            /\ invoked' = o.invoked
            /\ returned' = o.returned
    /\ ncalls' = ncalls + 1
    /\ UNCHANGED notPlugin

\* plugin.init_chain(ctx)
PluginInitChain ==
    /\ ncalls < MaxPluginCalls
    /\ \E ctx \in Contexts, res \in Results :
        LET o == ForwardOutcome("init_chain", ctx, res \notin Errors, res)
        IN  /\ given' = [fn |-> "init_chain", shape |-> "none", arg |-> ctx]
            /\ invoked' = o.invoked
            /\ returned' = o.returned
    /\ ncalls' = ncalls + 1
    /\ UNCHANGED notPlugin

\* plugin.abci_query(request)
PluginAbciQuery ==
    /\ ncalls < MaxPluginCalls
    /\ \E req \in Queries, res \in Responses \cup Errors :
        LET o == ForwardOutcome("abci_query", req, res \notin Errors, res)
        IN  /\ given' = [fn |-> "abci_query", shape |-> "none", arg |-> req]
            /\ invoked' = o.invoked
            /\ returned' = o.returned
    /\ ncalls' = ncalls + 1
    /\ UNCHANGED notPlugin

PluginNext ==
    \/ PluginCall
    \/ PluginBeginBlock
    \/ PluginEndBlock
    \/ PluginInitChain
    \/ PluginAbciQuery

PluginSpec == PluginInit /\ [][PluginNext]_vars

(***************************************************************************)
(* HttpClient::call (tendermint/client.rs).  The node behind the RPC       *)
(* client is not part of the program: whether the broadcast gets through   *)
(* and the codes of its CheckTx and DeliverTx results are open.            *)
(***************************************************************************)
\* Most calls handed to the client.
MaxClientCalls == 3
\* Largest result code the node answers with; 0 is Code::Ok.
MaxCode == 2
Codes == 0..MaxCode
\* The variants of ABCICall the client is handed.
CallKinds == {"DeliverTx", "CheckTx", "BeginBlock"}
\* The calls of the application.
AppCalls == {"c1", "c2"}

\* The result of broadcast_tx_commit: Err, or the two results' codes.
RpcResults ==
    [made : {TRUE}, ok : {FALSE}, check_tx : {0}, deliver_tx : {0}]
        \cup [made : {TRUE}, ok : {TRUE}, check_tx : Codes, deliver_tx : Codes]

\* What call broadcast, what it was answered and what it returned.
ClientOutcome(txs, res, ans) == [broadcast |-> txs, rpc |-> res, answer |-> ans]

\* HttpClient::call.  encodes tells whether call.encode() returns Ok, res is
\* what broadcast_tx_commit returns when it is reached.
ClientCallOutcome(kind, c, encodes, res) ==
    IF kind # "DeliverTx"
    THEN ClientOutcome(<<>>, NoRpc, "Client: Unexpected call type")
    ELSE IF ~encodes
    THEN ClientOutcome(<<>>, NoRpc, "Encoding error")
    ELSE IF ~res.ok
    THEN ClientOutcome(<<c>>, res, "RPC error")
    ELSE IF res.check_tx # 0
    THEN ClientOutcome(<<c>>, res, "Call: code")
    ELSE ClientOutcome(<<c>>, res, "Ok")

ClientInit ==
    /\ Parked
    /\ CodecIdle
    /\ StoreIdle
    /\ AccountsIdle
    /\ PluginIdle
    /\ ClientIdle

\* client.call(call)
ClientCall ==
    /\ nsent < MaxClientCalls
    /\ \E kind \in CallKinds, c \in AppCalls, encodes \in BOOLEAN,
          res \in RpcResults :
        LET o == ClientCallOutcome(kind, c, encodes, res)
        IN  /\ sent' = [kind |-> kind, call |-> c]
            /\ broadcast' = broadcast \o o.broadcast
            /\ rpc' = o.rpc
            /\ answer' = o.answer
    /\ nsent' = nsent + 1
    /\ UNCHANGED notClient

ClientNext == ClientCall

ClientSpec == ClientInit /\ [][ClientNext]_vars

(***************************************************************************)
(* Properties of the dispatcher.                                           *)
(***************************************************************************)
Waiting == {w \in Workers : wpc[w] = "wait"}
Handled(kind) == epc = "ran" /\ cur.kind = kind
Succeeded(kind) == Handled(kind) /\ result.state = "ok"
\* What a get returns for an overlay entry that is not Absent.
Reads(entry) == IF entry = Tomb THEN Absent ELSE entry
NonEmpty(map) == \E k \in Keys : map[k] # Absent

\* C1, as stated: every request the executor received has got its reply
\* once the executor is back at the top of its loop or has returned from
\* listen, whatever the outcome of its handler.
C1_EveryRequestReplied ==
    epc \in {"poll", "recv", "exited"} => nreply = nrecv

\* The replies sent so far are those of the requests received so far, less
\* the one being handled or the one run failed on.
C1_ReplyCounts ==
    /\ nreply <= nrecv /\ nrecv <= nreply + 1
    /\ epc \in {"poll", "recv"} => nreply = nrecv
    /\ epc \in {"run", "ran"} =>
        nrecv = nreply + 1 /\ cur.seq = nrecv /\ wpc[cur.w] = "wait"
    /\ (epc = "exited" /\ result.state = "err") =>
        nrecv = nreply + 1 /\ cur.seq = nrecv /\ wpc[cur.w] = "wait"
    /\ (epc = "exited" /\ result.state # "err") => nreply = nrecv
    /\ epc = "panicked" =>
        nrecv = nreply + 1 /\ cur.seq = nrecv /\ wpc[cur.w] = "wait"

\* A reply is sent for the request received last, to the worker that
\* waits for it, and only when run returned Ok.
C1_ReplyStep ==
    nreply' # nreply =>
        /\ nreply' = nreply + 1
        /\ result.state = "ok"
        /\ cur.seq = nreply'
        /\ wpc[cur.w] = "wait" /\ wpc'[cur.w] = "write"
        /\ \A w \in Workers \ {cur.w} : wpc'[w] = wpc[w]

\* C1, amended: a request gets exactly one reply, and replies go out in
\* the order of reception, when run returns Ok for it; a request for which
\* run returns an error or panics gets no reply and is the last one taken.
C1_OneReplyInOrderWhenOk == []C1_ReplyCounts /\ [][C1_ReplyStep]_vars

\* C1: a request was answered and run failed on a later one.
C1_Witness == epc = "exited" /\ result.state = "err" /\ nreply >= 1

\* C2: at most one request is being handled at any time: the executor
\* takes a request only when the previous one has been answered and the
\* application, the store and both overlays are parked again.
C2_OneHandlerAtATime ==
    /\ Cardinality(Waiting) <= 1
    /\ epc \in {"run", "ran"} => Waiting = {cur.w}
    /\ epc \in {"poll", "recv"} =>
        /\ Waiting = {}
        /\ app /\ store
        /\ IsSome(consensus_state) /\ IsSome(mempool_state)
        /\ cur = NoReq /\ seen = NoSeen /\ result = NoResult

\* C2: a worker is blocked in send while another worker's request is
\* being handled.
C2_Witness ==
    /\ epc = "ran"
    /\ \E w \in Workers : wpc[w] = "send" /\ w # cur.w
    /\ wpc[cur.w] = "wait"

\* C3: after a successful Commit both overlays are empty and the store's
\* height is the height of the stored header.
C3_AfterCommit ==
    Succeeded("Commit") =>
        /\ consensus_state = Some(EmptyMap)
        /\ mempool_state = Some(EmptyMap)
        /\ IsSome(header) /\ merkHeight = Unwrap(header)

\* C3: a Commit that found writes in both overlays.
C3_Witness ==
    /\ Succeeded("Commit")
    /\ NonEmpty(seen.pend) /\ NonEmpty(seen.wr)
    /\ merkHeight = MaxHeight

\* A CheckTx leaves the store, the consensus overlay and the header alone.
C4_CheckTxStep ==
    (epc = "run" /\ cur.kind = "CheckTx") =>
        /\ merk' = merk /\ merkHeight' = merkHeight
        /\ RootHash(merk') = RootHash(merk)
        /\ header' = header
        /\ consensus_state' = consensus_state

\* No value written by a CheckTx is in the store, in the consensus overlay
\* or in what the handler of another kind of request read.
C4_NoCheckTxValue ==
    \A k \in Keys :
        /\ merk[k] # "CheckTx"
        /\ IsSome(consensus_state) => Unwrap(consensus_state)[k] # "CheckTx"
        /\ (epc = "ran" /\ cur.kind # "CheckTx") => seen.view[k] # "CheckTx"

\* C4: a CheckTx changes neither the store (contents, height, root hash)
\* nor the consensus overlay nor the stored header, and no value written by
\* a CheckTx is in the store, in the consensus overlay or in what a
\* BeginBlock, DeliverTx, EndBlock, InitChain or Query handler reads.
C4_CheckTxOnlyInMempool == []C4_NoCheckTxValue /\ [][C4_CheckTxStep]_vars

\* C4: a DeliverTx handler runs while the mempool overlay holds a value a
\* CheckTx wrote.
C4_Witness ==
    /\ Handled("DeliverTx")
    /\ seen.handler = "ok"
    /\ IsSome(mempool_state)
    /\ \E k \in Keys : Unwrap(mempool_state)[k] = "CheckTx"

\* C5, as stated: what a CheckTx handler reads is the mempool overlay over
\* the store as it is without the writes of the block that is not
\* committed.
C5_CheckTxReadsCommitted ==
    Handled("CheckTx") => seen.view = WrappedView(seen.pend, committed)

\* C6, as stated: a failing deliver_tx handler is answered with a non-zero
\* code, its writes are dropped, the consensus overlay is kept and the
\* executor goes on.
C6_DeliverTxFailureContinues ==
    (cur.kind = "DeliverTx" /\ seen.handler = "err") =>
        /\ epc # "exited"
        /\ result.state = "ok" /\ result.res.code # 0
        /\ consensus_state = Some(seen.pend)

\* C7, as stated: a failing check_tx handler is answered with a non-zero
\* code, the fatal flag is not set for it, the mempool overlay is kept and
\* the executor goes on.
C7_CheckTxFailureCaught ==
    (cur.kind = "CheckTx" /\ seen.handler = "err") =>
        /\ epc # "exited"
        /\ result.state = "ok" /\ result.res.code # 0
        /\ mempool_state = Some(seen.pend)

\* C8: after a successful DeliverTx the consensus overlay is empty and the
\* store holds the transaction's writes and the writes that were pending
\* in the consensus overlay; the handler of a DeliverTx that follows
\* directly reads them.
C8_DeliverTxFlushed ==
    /\ Succeeded("DeliverTx") =>
        /\ consensus_state = Some(EmptyMap)
        /\ \A k \in Keys :
            /\ seen.wr[k] # Absent => merk[k] = Reads(seen.wr[k])
            /\ (seen.wr[k] = Absent /\ seen.pend[k] # Absent) =>
                merk[k] = Reads(seen.pend[k])
    /\ (Handled("DeliverTx") /\ prev.kind = "DeliverTx") =>
        \A k \in Keys :
            prev.expect[k] # Absent => seen.view[k] = Reads(prev.expect[k])

\* C8: a DeliverTx reads a write of BeginBlock that the DeliverTx before
\* it flushed into the store.
C8_Witness ==
    /\ Handled("DeliverTx")
    /\ prev.kind = "DeliverTx"
    /\ \E k \in Keys : prev.expect[k] = "BeginBlock" /\ seen.view[k] = "BeginBlock"

\* The step of a successful BeginBlock or EndBlock.
C9_BlockStep ==
    (epc = "run" /\ cur.kind \in {"BeginBlock", "EndBlock"}
        /\ result'.state = "ok") =>
        /\ merk' = merk /\ merkHeight' = merkHeight
        /\ RootHash(merk') = RootHash(merk)
        /\ mempool_state' = mempool_state
        /\ IsSome(consensus_state')
        /\ \A k \in Keys :
            Unwrap(consensus_state')[k] =
                IF seen'.wr[k] # Absent THEN seen'.wr[k]
                ELSE Unwrap(consensus_state)[k]

\* C9: a successful BeginBlock or EndBlock leaves the store (contents,
\* height, root hash) and the mempool overlay as they were; the handler's
\* writes are in the consensus overlay.
C9_BlockHandlersLeaveStore == [][C9_BlockStep]_vars

\* C9: an EndBlock handler wrote while the consensus overlay held writes.
C9_Witness ==
    /\ Succeeded("EndBlock")
    /\ NonEmpty(seen.wr) /\ NonEmpty(seen.pend)
    /\ \E k \in Keys : Unwrap(consensus_state)[k] = "EndBlock"

\* C10: a successful Commit applies the writes pending in the consensus
\* overlay to the store, commits the stored header and replies with the
\* root hash of the store after the commit; an Info handled directly after
\* it reports that hash and the committed height.
C10_CommitThenInfo ==
    /\ Succeeded("Commit") =>
        /\ \A k \in Keys :
            merk[k] =
                IF seen.pend[k] # Absent THEN Reads(seen.pend[k])
                ELSE seen.view[k]
        /\ merkHeight = Unwrap(header)
        /\ result.res.hash = RootHash(merk)
    /\ (Succeeded("Info") /\ prev.kind = "Commit") =>
        /\ result.res.hash = prev.res.hash
        /\ result.res.height = Unwrap(header)

\* C10: an Info directly after a Commit that wrote to the store.
C10_Witness ==
    /\ Succeeded("Info")
    /\ prev.kind = "Commit"
    /\ result.res.hash # RootHash(EmptyKV)
    /\ result.res.height = MaxHeight

\* The step of run for a Query.
C11_QueryStep ==
    (epc = "run" /\ cur.kind = "Query" /\ epc' # epc) =>
        /\ merk' = merk /\ merkHeight' = merkHeight
        /\ RootHash(merk') = RootHash(merk)
        /\ mempool_state' = mempool_state
        /\ consensus_state' = consensus_state
        /\ header' = header
        /\ height' = height
        /\ app' = app /\ store' = store
        /\ committed' = committed

\* C11: a Query, answered or failed, changes nothing: the store's
\* contents, height and root hash, both overlays, the stored header and the
\* dispatcher's height are after it what they were before it, and the
\* store and the application are parked again.
C11_QueryChangesNothing == [][C11_QueryStep]_vars

\* C11: a Query handler failed on a store with contents, with writes
\* pending in the consensus overlay.
C11_Witness ==
    /\ Handled("Query") /\ seen.handler = "err"
    /\ NonEmpty(merk) /\ NonEmpty(Unwrap(consensus_state))

\* The reply to a Query whose handler failed.
C12_QueryErrReply ==
    (Handled("Query") /\ seen.handler = "err") =>
        /\ result.state = "ok"
        /\ result.res.kind = "Query" /\ result.res.code = 1
        /\ result.res.log = seen.err /\ result.res.info = seen.err
        /\ result.res.key = <<>> /\ result.res.value = <<>>
        /\ result.res.proof = None

\* The steps of the executor on a Query whose handler fails: run leaves
\* the flags alone, and the next step of the executor sends the reply and
\* goes back to the top of the loop.
C12_QueryErrStep ==
    /\ (epc = "run" /\ cur.kind = "Query" /\ epc' # epc) =>
        /\ epc' = "ran" /\ result'.state = "ok"
        /\ shutdown' = shutdown /\ shutdown_notifier' = shutdown_notifier
    /\ (Handled("Query") /\ seen.handler = "err" /\ epc' # epc) =>
        /\ epc' = "poll"
        /\ nreply' = nreply + 1 /\ wpc'[cur.w] = "write"
        /\ shutdown' = shutdown /\ shutdown_notifier' = shutdown_notifier
        /\ app' /\ store'

\* C12: when the query handler returns an error, the reply is a Query
\* response with code 1, the error's text as log and as info, and empty
\* key, value and proof; the fatal flag is not set for it and the executor
\* goes back to the top of its loop.
C12_QueryErrorCaught == []C12_QueryErrReply /\ [][C12_QueryErrStep]_vars

\* C12: a failed Query is answered after an earlier request, with no
\* fatal error flagged.
C12_Witness ==
    /\ Handled("Query") /\ seen.handler = "err" /\ seen.err = "e2"
    /\ result.res.log = "e2"
    /\ shutdown = None /\ nreply >= 1

\* C13, as stated: the height in the reply to a Query whose handler failed
\* is the height of the store, the one Info reports.
C13_QueryErrHeightIsCommitted ==
    (Handled("Query") /\ seen.handler = "err") =>
        result.res.height = merkHeight

\* C14, as stated: whenever listen has returned, the fatal flag holds an
\* error.
C14_ExitSetsFlag == epc = "exited" => IsSome(shutdown)

\* The executor has left its loop: listen has returned, or run did not
\* return to it.
ExecutorLeft == epc \in {"exited", "panicked"}

\* The notifier is true when listen has returned, and only then.
C15_NotifierIffExited == shutdown_notifier <=> epc = "exited"

C16_ReadErrStep ==
    \A w \in Workers :
        (wpc[w] = "read" /\ wpc'[w] # "read" /\ wpc'[w] # "send") =>
            /\ shutdown' = Some("ABCI2")
            /\ wpc'[w] = "returned"
            /\ nrecv' = nrecv /\ nreq' = nreq
            /\ epc' = epc /\ cur' = cur

\* A worker that returned takes no further step, and the flag it set
\* stays set.
C16_ReturnedStaysStep ==
    \A w \in Workers :
        wpc[w] = "returned" => (wpc'[w] = "returned" /\ IsSome(shutdown'))

\* A worker that returned has left the fatal flag set.
C16_ReturnedFlagged ==
    (\E w \in Workers : wpc[w] = "returned") => IsSome(shutdown)

\* C16: a worker whose read fails sets the fatal flag and returns, which
\* ends its thread and releases its connection; it hands no request to
\* the executor, then or later.
C16_ReadErrorStopsWorker ==
    /\ []C16_ReturnedFlagged
    /\ [][C16_ReadErrStep /\ C16_ReturnedStaysStep]_vars

\* C16: a worker's read failed while the executor was handling the
\* request of the other worker.
C16_Witness ==
    /\ \E w \in Workers : wpc[w] = "returned" /\ w # cur.w
    /\ epc = "ran" /\ shutdown = Some("ABCI2")

\* C17, as stated: with a stop height set, the executor has stopped, with
\* the notifier set, once the reply to a Commit that left the store at or
\* above the stop height is sent, and a Commit that left it below does not
\* stop it.
C17_StopsAtStoreHeight ==
    (IsSome(stop_height) /\ prev.kind = "Commit"
        /\ epc \in {"poll", "recv", "exited"}) =>
        /\ merkHeight >= Unwrap(stop_height) =>
            (epc = "exited" /\ shutdown_notifier)
        /\ (merkHeight < Unwrap(stop_height) /\ shutdown = None) =>
            epc # "exited"

\* A BeginBlock beyond the stop height.
PastStop ==
    /\ IsSome(stop_height)
    /\ cur.kind = "BeginBlock" /\ cur.h > Unwrap(stop_height)

\* The step of run for a BeginBlock beyond the stop height.
C18_PastStopStep ==
    (epc = "run" /\ PastStop /\ epc' # epc) =>
        /\ result'.state = "err" /\ seen'.handler = "none"
        /\ header' = header /\ height' = height
        /\ mempool_state' = mempool_state
        /\ consensus_state' = consensus_state
        /\ merk' = merk /\ merkHeight' = merkHeight
        /\ app' = app /\ store' = store

\* A BeginBlock beyond the stop height is not answered; one at or below
\* it, or with no stop height set, reaches the application's handler with
\* its header stored.
C18_StopHeightCheck ==
    /\ (epc \in {"ran", "exited"} /\ PastStop) =>
        /\ result.state = "err"
        /\ wpc[cur.w] = "wait" /\ nreply = cur.seq - 1
    /\ (Handled("BeginBlock") /\ ~PastStop) =>
        /\ seen.handler \in {"ok", "err"}
        /\ header = Some(cur.h)
        /\ seen.handler = "ok" => result.state = "ok"

\* C18: a BeginBlock whose header height is greater than the stop height
\* fails before the application is invoked and before any state is
\* touched, and gets no reply; one whose height is at most the stop height
\* is not refused by this check.
C18_BeginBlockPastStopHeight == []C18_StopHeightCheck /\ [][C18_PastStopStep]_vars

\* C18: listen returned on a BeginBlock beyond the stop height, after a
\* BeginBlock at the stop height had stored its header.
C18_Witness ==
    /\ epc = "exited" /\ PastStop /\ result.state = "err"
    /\ IsSome(header) /\ Unwrap(header) = Unwrap(stop_height)
    /\ wpc[cur.w] = "wait"

\* The reply to an ApplySnapshotChunk.
C19_ChunkReply ==
    Handled("ApplySnapshotChunk") =>
        /\ result.state = "ok"
        /\ seen.handler = "ok" => result.res.result = 1
        /\ seen.handler = "err" =>
            /\ result.res.result = 3
            /\ result.res.refetch_chunks = <<cur.index>>
            /\ result.res.reject_senders = <<cur.sender>>

\* The steps of the executor on an ApplySnapshotChunk: run leaves the
\* overlays, the height and the flags alone, and the next step of the
\* executor sends the reply and goes back to the top of the loop.
C19_ChunkStep ==
    /\ (epc = "run" /\ cur.kind = "ApplySnapshotChunk" /\ epc' # epc) =>
        /\ epc' = "ran"
        /\ mempool_state' = mempool_state
        /\ consensus_state' = consensus_state
        /\ height' = height
        /\ shutdown' = shutdown /\ shutdown_notifier' = shutdown_notifier
    /\ (Handled("ApplySnapshotChunk") /\ epc' # epc) =>
        /\ epc' = "poll"
        /\ nreply' = nreply + 1 /\ wpc'[cur.w] = "write"
        /\ shutdown' = shutdown /\ shutdown_notifier' = shutdown_notifier

\* C19: ApplySnapshotChunk is answered with result 1 when the store takes
\* the chunk, and with result 3, the request's index to refetch and its
\* sender to reject when the store refuses it; the overlays and the
\* dispatcher's height are unchanged and the executor goes on.
C19_ApplySnapshotChunk == []C19_ChunkReply /\ [][C19_ChunkStep]_vars

\* C19: the store refused chunk 2 while both overlays held writes.
C19_Witness ==
    /\ Handled("ApplySnapshotChunk") /\ seen.handler = "err"
    /\ cur.index = 2 /\ result.res.refetch_chunks = <<2>>
    /\ result.res.reject_senders = <<"p1">>
    /\ NonEmpty(Unwrap(consensus_state)) /\ NonEmpty(Unwrap(mempool_state))

\* The height of the store does not go down in a step.
C20_HeightStep == merkHeight' >= merkHeight

\* C20, as stated: across any sequence of requests the height of the
\* store never decreases.
C20_HeightNeverDecreases == [][C20_HeightStep]_vars

\* The reply to an Info.
C21_InfoReply ==
    Succeeded("Info") =>
        /\ result.res.kind = "Info"
        /\ result.res.height = merkHeight
        /\ result.res.hash =
            IF merkHeight > 0 THEN RootHash(merk) ELSE EmptyHash

\* The step of run for an Info, Echo, Flush or SetOption.
C21_NoEffectStep ==
    (epc = "run" /\ cur.kind \in {"Info", "Echo", "Flush", "SetOption"}
        /\ epc' # epc) =>
        /\ result'.state = "ok" /\ result'.res.kind = cur.kind
        /\ merk' = merk /\ merkHeight' = merkHeight
        /\ mempool_state' = mempool_state
        /\ consensus_state' = consensus_state
        /\ header' = header /\ height' = height
        /\ app' = app /\ store' = store

\* C21: Info replies with the store's height and with the store's root
\* hash when that height is greater than 0, the empty hash when it is 0;
\* Info, Echo, Flush and SetOption leave the store, both overlays, the
\* stored header and the dispatcher's height unchanged.
C21_InfoAndDefaults == []C21_InfoReply /\ [][C21_NoEffectStep]_vars

\* C21: an Info on a store at height 0 that has contents is answered with
\* the empty hash.
C21_Witness ==
    /\ Succeeded("Info") /\ merkHeight = 0 /\ NonEmpty(merk)
    /\ result.res.hash = EmptyHash
    /\ NonEmpty(Unwrap(consensus_state))

\* A suppressed InitChain is answered with the default reply and no
\* handler has run for it.
C22_SkippedReply ==
    (Handled("InitChain") /\ skip_init_chain) =>
        /\ result = Ok(Res("InitChain", 0, 0, EmptyHash))
        /\ seen.handler = "none"

\* The step of run for a suppressed InitChain.
C22_SkippedStep ==
    (epc = "run" /\ cur.kind = "InitChain" /\ skip_init_chain
        /\ epc' # epc) =>
        /\ merk' = merk /\ merkHeight' = merkHeight
        /\ mempool_state' = mempool_state
        /\ consensus_state' = consensus_state
        /\ header' = header /\ height' = height
        /\ app' = app /\ store' = store

\* C22: with skip_init_chain set, an InitChain is answered with the
\* default reply, the init_chain handler is not invoked, and the store,
\* both overlays, the header and the height are unchanged.
C22_InitChainSkipped == []C22_SkippedReply /\ [][C22_SkippedStep]_vars

\* C22: a suppressed InitChain while both overlays held writes.
C22_Witness ==
    /\ Succeeded("InitChain") /\ skip_init_chain
    /\ NonEmpty(Unwrap(consensus_state)) /\ NonEmpty(Unwrap(mempool_state))

\* After a successful init_chain handler the store holds its writes and
\* those that were pending, and the consensus overlay is empty.
C30_InitChainFlushed ==
    (Succeeded("InitChain") /\ seen.handler = "ok") =>
        /\ ~skip_init_chain
        /\ consensus_state = Some(EmptyMap)
        /\ \A k \in Keys :
            merk[k] =
                IF seen.wr[k] # Absent THEN Reads(seen.wr[k])
                ELSE IF seen.pend[k] # Absent THEN Reads(seen.pend[k])
                ELSE seen.view[k]

\* The step of run for an InitChain leaves the mempool overlay alone.
C30_InitChainStep ==
    (epc = "run" /\ cur.kind = "InitChain" /\ result'.state = "ok") =>
        mempool_state' = mempool_state

\* C30: when InitChain is not skipped and the handler succeeds, every
\* write of the handler is in the store when the reply is produced, the
\* consensus overlay is empty and the mempool overlay is unchanged.
C30_InitChainApplied == []C30_InitChainFlushed /\ [][C30_InitChainStep]_vars

\* C30: an init_chain handler wrote while the mempool overlay held a
\* write of a CheckTx.
C30_Witness ==
    /\ Succeeded("InitChain") /\ seen.handler = "ok"
    /\ \E k \in Keys : seen.wr[k] = "InitChain" /\ merk[k] = "InitChain"
    /\ NonEmpty(Unwrap(mempool_state))

(***************************************************************************)
(* Properties of the envelope codec.                                       *)
(***************************************************************************)
\* C23: decoding an envelope of more than 65 535 bytes fails, whatever its
\* first byte, before any native, Amino or Protobuf decoder is handed its
\* content; an envelope of exactly 65 535 bytes passes the size check and
\* is handed to a decoder.
C23_SizeCap ==
    cpc = "decoded" =>
        /\ Size(bytes) > 65535 =>
            (~decoded.ok /\ decoded.tried = <<>>
                /\ decoded.err = "UnexpectedByte(0)")
        /\ Size(bytes) = 65535 => Len(decoded.tried) = 1

\* C23: an envelope of 65 536 bytes with the native flag in front was
\* refused.
C23_Witness ==
    /\ cpc = "decoded" /\ Size(bytes) = 65536
    /\ First(bytes) = 255 /\ ~decoded.ok

\* C24: decoding a non-empty envelope within the size cap selects the
\* shape by the first byte alone: 0xFF hands the remaining bytes to the
\* native decoder, '{' the whole envelope to the Amino JSON decoder and
\* any other byte the whole envelope to the Protobuf decoder; the empty
\* envelope is a decode error.
C24_ShapeByFirstByte ==
    (cpc = "decoded" /\ Size(bytes) <= 65535) =>
        IF Size(bytes) = 0
        THEN ~decoded.ok /\ decoded.tried = <<>>
        ELSE IF First(bytes) = 255
        THEN /\ decoded.tried = <<<<"T::decode", Rest(bytes)>>>>
             /\ decoded.ok => decoded.value = Native(Rest(bytes))
        ELSE IF First(bytes) = 123
        THEN /\ decoded.tried = <<<<"serde_json::from_slice", bytes>>>>
             /\ decoded.ok => decoded.value = Amino(bytes)
        ELSE /\ decoded.tried = <<<<"cosmrs::Tx::from_bytes", bytes>>>>
             /\ decoded.ok => decoded.value = Protobuf(bytes)

\* C24: a native envelope whose payload begins with '{' was decoded as a
\* native call.
C24_Witness ==
    /\ cpc = "decoded" /\ decoded.ok
    /\ bytes.head = <<255, 123>> /\ bytes.pad = 0
    /\ decoded.value.call = "Native" /\ decoded.value.of.head = <<123>>

\* C25, as stated: for every native call, encode writes 0xFF and then the
\* call's own encoding, encoding_length is the call's length plus one, and
\* decoding what encode wrote gives the call back.
C25_NativeRoundTrip ==
    /\ cpc \in {"encoded", "roundtrip"} =>
        /\ bytes = Prepend(255, call)
        /\ EncodingLength(call) = Size(call) + 1
        /\ Size(bytes) = EncodingLength(call)
    /\ cpc = "roundtrip" =>
        (decoded.ok /\ decoded.value = Native(call))

(***************************************************************************)
(* Properties of the prefix view.                                          *)
(***************************************************************************)
\* The keys given to sub, one after the other.
RECURSIVE Flat(_)
Flat(keys) == IF keys = <<>> THEN <<>> ELSE Head(keys) \o Flat(Tail(keys))

\* The key of the backing store an operation of the view is about.
Target == Flat(path) \o out'.key

\* C26: get(k) on the view Store::new(b).sub(p) returns what the backing
\* store holds at p||k, put(k, x) writes x at p||k and delete(k) deletes
\* p||k, and no other key of the backing store changes.
C26_ViewStep ==
    (spc = "view" /\ spc' = "used" /\ out'.op \in {"get", "put", "delete"}) =>
        /\ out'.op = "get" =>
            /\ out'.result = MapGet(backing, Target)
            /\ backing' = backing
        /\ out'.op = "put" =>
            /\ DOMAIN backing' = DOMAIN backing \cup {Target}
            /\ backing'[Target] = out'.value
        /\ out'.op = "delete" =>
            DOMAIN backing' = DOMAIN backing \ {Target}
        /\ \A k \in (DOMAIN backing \cup DOMAIN backing') \ {Target} :
            /\ k \in DOMAIN backing /\ k \in DOMAIN backing'
            /\ backing'[k] = backing[k]

\* C26: sub(p).sub(q) is the view sub(p||q): the prefix of a view is the
\* keys given to sub, joined in order.
C26_Nesting == prefix = Flat(path)

\* C26: the view's operations act on prefix||key and nesting composes.
C26_PrefixView == []C26_Nesting /\ [][C26_ViewStep]_vars

\* C26: the nested view sub([1]).sub([2]) has overwritten the entry at
\* [1, 2, 0] through the key [0].
C26_Witness ==
    /\ spc = "used" /\ out.op = "put"
    /\ path = <<<<1>>, <<2>>>> /\ out.key = <<0>>
    /\ <<1, 2, 0>> \in DOMAIN backing /\ backing[<<1, 2, 0>>] = <<7>>
    /\ <<1, 2, 1>> \in DOMAIN backing /\ backing[<<1, 2, 1>>] = <<5>>

\* Whether byte string p begins byte string k.
IsPrefix(p, k) == Len(p) <= Len(k) /\ SubSeq(k, 1, Len(p)) = p

\* The entry get_next is to return: the least key under the prefix that is
\* greater than prefix||key, without the prefix.
NextUnder(m, pre, key) ==
    LET under == {j \in DOMAIN m : IsPrefix(pre, j) /\ Less(pre \o key, j)}
    IN  IF under = {} THEN None
        ELSE LET least == CHOOSE j \in under :
                              \A i \in under : i = j \/ Less(j, i)
             IN  Some(<<SubSeq(least, Len(pre) + 1, Len(least)), m[least]>>)

\* C27, as stated: get_next(k) on a prefix view returns the entry with the
\* least key greater than prefix||k that lies under the prefix, with the
\* prefix stripped from the returned key, and nothing when the next key of
\* the backing store lies outside the prefix.
C27_GetNextUnderPrefix ==
    (spc = "used" /\ out.op = "get_next") =>
        out.result = NextUnder(backing, Flat(path), out.key)

(***************************************************************************)
(* Properties of the accounts module.                                      *)
(***************************************************************************)
\* Every address reads the balance it read before the call.
BalancesKept == \A a \in Addresses : Balance(accounts', a) = Balance(accounts, a)

\* C28: a transfer by a signer fails with 'Transfers are currently
\* disabled' and changes no balance whenever transfers are not allowed and
\* the signer is not in the exception set; when transfers are allowed or
\* the signer is in the exception set, the transfer is not rejected by this
\* check.
C28_TransferStep ==
    (ret'.op = "transfer" /\ ret'.signer \in Addresses) =>
        IF ~transfers_allowed /\ ret'.signer \notin transfer_exceptions
        THEN /\ ret'.result = "Transfers are currently disabled"
             /\ BalancesKept
        ELSE ret'.result # "Transfers are currently disabled"

C28_TransfersDisabled == [][C28_TransferStep]_vars

\* C28: with transfers disabled and the other address in the exception
\* set, a transfer the signer could pay for was refused.
C28_Witness ==
    /\ ret.op = "transfer"
    /\ ret.result = "Transfers are currently disabled"
    /\ ret.signer \in Addresses
    /\ ~transfers_allowed
    /\ transfer_exceptions # {} /\ ret.signer \notin transfer_exceptions
    /\ ret.amount > 0 /\ Balance(accounts, ret.signer) >= ret.amount

\* The call is a transfer or take_as_funding, by a signer, of more than
\* the signer's balance or by a signer that has no account.
Underfunded ==
    /\ ret'.op \in {"transfer", "take_as_funding"}
    /\ ret'.signer \in Addresses
    /\ \/ accounts[ret'.signer] = None
       \/ ret'.amount > Balance(accounts, ret'.signer)

\* The call is a transfer that the transfers-disabled check refuses.
Refused ==
    /\ ret'.op = "transfer"
    /\ ~transfers_allowed /\ ret'.signer \notin transfer_exceptions

\* C29, as stated: a transfer or take_as_funding of an amount greater than
\* the signer's balance, or by a signer that has no account, fails with an
\* Insufficient funds error and changes no balance.
C29_UnderflowStep ==
    Underfunded => (ret'.result = "Insufficient funds" /\ BalancesKept)

C29_UnderflowFails == [][C29_UnderflowStep]_vars

\* C29, amended: a take_as_funding, or a transfer that passes the
\* transfers-disabled check, of an amount greater than the signer's
\* balance, or by a signer that has no account, fails with an Insufficient
\* funds error; a transfer that the check refuses fails with 'Transfers are
\* currently disabled' instead.  In either case no balance changes, and a
\* recipient that had no account still reads balance 0.
C29_AmendedStep ==
    Underfunded =>
        /\ ret'.result =
              (IF Refused THEN "Transfers are currently disabled"
               ELSE "Insufficient funds")
        /\ BalancesKept
        /\ (ret'.op = "transfer" /\ accounts[ret'.to] = None) =>
              Balance(accounts', ret'.to) = 0

C29_UnderflowFailsUnlessRefused == [][C29_AmendedStep]_vars

\* C29: a signer holding one coin tried to transfer two to an address
\* without an account, with transfers allowed.
C29_Witness ==
    /\ ret.op = "transfer" /\ ret.result = "Insufficient funds"
    /\ ret.signer \in Addresses /\ ret.amount = 2
    /\ transfers_allowed
    /\ accounts[ret.signer] = Some(1)
    /\ ret.to # ret.signer /\ accounts[ret.to] = None

(***************************************************************************)
(* Further properties of the dispatcher.                                   *)
(***************************************************************************)
\* The mempool overlay after a successful CheckTx holds what it held and
\* the handler's writes; a CheckTx handler reads the overlay's entries and,
\* where it has none, the store; a Commit leaves the overlay empty, so that
\* a CheckTx that follows it reads the store.
C31_MempoolReads ==
    /\ Succeeded("CheckTx") =>
        mempool_state = Some(FlushBuf(seen.wr, seen.pend))
    /\ Handled("CheckTx") =>
        \A k \in Keys :
            seen.view[k] =
                IF seen.pend[k] # Absent THEN Reads(seen.pend[k]) ELSE merk[k]
    /\ Succeeded("Commit") => mempool_state = Some(EmptyMap)
    /\ (Handled("CheckTx") /\ prev.kind = "Commit") =>
        (seen.pend = EmptyMap /\ seen.view = merk)

\* Only a CheckTx and a Commit change the mempool overlay, and a CheckTx
\* handler is given the overlay as it is parked.
C31_MempoolStep ==
    /\ mempool_state' # mempool_state =>
        (epc = "run" /\ cur.kind \in {"CheckTx", "Commit"})
    /\ (epc = "run" /\ epc' # epc /\ cur.kind = "CheckTx") =>
        seen'.pend = Unwrap(mempool_state)

\* C31: the writes of a successful CheckTx stay in the mempool overlay and
\* are read by every later CheckTx up to the next Commit; after a Commit
\* the overlay is empty and the next CheckTx reads what the store holds.
C31_MempoolUntilCommit == []C31_MempoolReads /\ [][C31_MempoolStep]_vars

\* C31: a CheckTx handler read a value that an earlier CheckTx wrote.
C31_Witness ==
    /\ Handled("CheckTx")
    /\ \E k \in Keys :
        /\ seen.pend[k] = "CheckTx" /\ seen.view[k] = "CheckTx"
        /\ merk[k] = Absent

\* C32, as stated: the consensus overlay is empty after every successful
\* DeliverTx, InitChain and Commit.
C32_EmptyAfterFlush ==
    (\E kind \in {"DeliverTx", "InitChain", "Commit"} : Succeeded(kind)) =>
        consensus_state = Some(EmptyMap)

\* The consensus overlay is empty after a successful DeliverTx, Commit and
\* InitChain that is not skipped, and the store then holds what was
\* pending in the overlay the DeliverTx or InitChain found.
C32_EmptyAfterFlushUnlessSkipped ==
    /\ (\/ Succeeded("DeliverTx")
        \/ Succeeded("Commit")
        \/ Succeeded("InitChain") /\ ~skip_init_chain) =>
            consensus_state = Some(EmptyMap)
    /\ Succeeded("DeliverTx") =>
        \A k \in Keys :
            (seen.wr[k] = Absent /\ seen.pend[k] # Absent) =>
                merk[k] = Reads(seen.pend[k])

\* Only a successful BeginBlock or EndBlock leaves the consensus overlay
\* with an entry it did not have, and a skipped InitChain leaves the
\* overlay as it found it.
C32_PendingStep ==
    /\ (IsSome(consensus_state') /\ consensus_state' # consensus_state
            /\ NonEmpty(Unwrap(consensus_state'))) =>
        (epc = "run" /\ cur.kind \in {"BeginBlock", "EndBlock"}
            /\ result'.state = "ok")
    /\ (epc = "run" /\ epc' # epc /\ cur.kind = "InitChain"
            /\ skip_init_chain) =>
        consensus_state' = consensus_state

\* C32, amended: the consensus overlay is empty after every successful
\* DeliverTx and Commit and after every successful InitChain that is not
\* skipped; it holds pending writes only between a BeginBlock or EndBlock
\* and the next DeliverTx, Commit or InitChain that is not skipped, so that
\* writes of BeginBlock reach the store at the first successful DeliverTx
\* of the block.
C32_PendingOnlyInBlock ==
    []C32_EmptyAfterFlushUnlessSkipped /\ [][C32_PendingStep]_vars

\* C32: a DeliverTx has flushed a write of BeginBlock into the store.
C32_Witness ==
    /\ Succeeded("DeliverTx")
    /\ \E k \in Keys :
        /\ seen.pend[k] = "BeginBlock" /\ seen.wr[k] = Absent
        /\ merk[k] = "BeginBlock" /\ committed[k] = Absent

\* The dispatcher holds the application, the store and both overlays.
Held ==
    /\ app /\ store
    /\ IsSome(mempool_state) /\ IsSome(consensus_state)

\* The kinds of request that run a handler of the application.
HandlerKinds == WriterKinds \cup {"Query"}

\* The request run failed on is the last one the executor received.
LastTaken == epc \in {"ran", "exited"} /\ nrecv = cur.seq

\* C33, as stated: after every request whose handler returns successfully
\* the dispatcher holds the application, the store and both overlays, and
\* after a failing handler these fields are not restored and no further
\* request is processed.
C33_RestoredUnlessHandlerFails ==
    /\ result.state = "ok" => Held
    /\ epc \in {"poll", "recv", "run"} => Held
    /\ (cur.kind \in HandlerKinds /\ seen.handler = "err") =>
        /\ ~app /\ ~store
        /\ result.state = "err" /\ LastTaken

\* C33, amended: after every request for which run returns Ok the
\* dispatcher holds the application, the store and both overlays, so that
\* every request is run with all four in place; after a failing
\* init_chain, begin_block, deliver_tx, end_block or check_tx handler the
\* application, the store and the overlay the request wrapped are not
\* restored and no further request is processed; a failing query handler is
\* answered, with all fields restored.
C33_RestoredUnlessRunFails ==
    /\ result.state = "ok" => Held
    /\ epc \in {"poll", "recv", "run"} => Held
    /\ (cur.kind \in WriterKinds /\ seen.handler = "err") =>
        /\ ~app /\ ~store
        /\ IF cur.kind = "CheckTx"
           THEN mempool_state = None /\ IsSome(consensus_state)
           ELSE consensus_state = None /\ IsSome(mempool_state)
        /\ result.state = "err" /\ LastTaken
    /\ (cur.kind = "Query" /\ seen.handler = "err") =>
        (result.state = "ok" /\ Held)

\* C33: listen has returned on a failing deliver_tx handler that followed
\* an answered request, with a request of another worker left unprocessed.
C33_Witness ==
    /\ epc = "exited" /\ cur.kind = "DeliverTx" /\ seen.handler = "err"
    /\ ~app /\ ~store /\ consensus_state = None
    /\ nreply >= 1
    /\ \E w \in Workers : wpc[w] = "send"

\* With the fatal flag set, the executor takes a request only from the
\* recv_timeout it is in, one request, and once it is not in recv_timeout
\* it takes none and never comes back to it; the flag stays set.
C34_FlagStep ==
    IsSome(shutdown) =>
        /\ IsSome(shutdown')
        /\ epc # "recv" => (nrecv' = nrecv /\ epc' # "recv")
        /\ epc = "recv" =>
            \/ nrecv' = nrecv
            \/ nrecv' = nrecv + 1 /\ epc' = "run" /\ cur'.flagged

\* A request taken with the flag set is the last one taken.
C34_LastRequest ==
    cur.flagged =>
        /\ IsSome(shutdown)
        /\ epc \in {"run", "ran", "exited", "panicked"}
        /\ nrecv = cur.seq

\* C34: once a worker has set the fatal flag, the executor takes at most
\* one further request, beyond the one it may be handling, before it leaves
\* its loop, in every interleaving of the workers and the executor.
C34_AtMostOneMore == []C34_LastRequest /\ [][C34_FlagStep]_vars

\* C34: the executor has handled a request that it took after a worker
\* had set the fatal flag.
C34_Witness ==
    /\ epc = "ran" /\ result.state = "ok"
    /\ cur.flagged /\ shutdown = Some("ABCI2")
    /\ \E w \in Workers : wpc[w] = "returned"

\* The order of a worker's loop: check the flag, read a request, send it,
\* wait for the reply, write it, and only then check and read again.
WorkerOrder ==
    {<<"check", "read">>, <<"check", "closed">>, <<"read", "send">>,
     <<"read", "returned">>, <<"send", "wait">>, <<"send", "broke">>,
     <<"wait", "write">>, <<"write", "check">>}

\* A worker that has submitted a request and not yet written its reply.
Outstanding(w) == wpc[w] \in {"send", "wait", "write"}

\* The request being handled is the one of the worker that waits, and the
\* reply run made is a reply of that request's kind.
C35_OwnRequest ==
    /\ \A w \in Workers :
        wpc[w] = "wait" =>
            (cur.w = w /\ epc \in {"run", "ran", "exited", "panicked"})
    /\ epc \in {"run", "ran"} => wpc[cur.w] = "wait"
    /\ (epc = "ran" /\ result.state = "ok") => result.res.kind = cur.kind

\* A worker goes through its loop in order; it reads a request only with
\* none outstanding; the request the executor takes is tagged with the
\* worker that sent it; and the reply a worker receives is the reply to
\* the request of that worker, the one received last.
C35_WorkerStep ==
    /\ \A w \in Workers :
        /\ wpc'[w] # wpc[w] => <<wpc[w], wpc'[w]>> \in WorkerOrder
        /\ (wpc[w] = "send" /\ wpc'[w] = "wait") =>
            (cur'.w = w /\ cur'.seq = nrecv' /\ nrecv' = nrecv + 1)
        /\ (wpc[w] = "wait" /\ wpc'[w] = "write") =>
            /\ cur.w = w /\ cur.seq = nrecv
            /\ result.state = "ok" /\ result.res.kind = cur.kind
            /\ nreply' = nreply + 1
    /\ nreq' # nreq =>
        \E w \in Workers :
            /\ ~Outstanding(w) /\ wpc[w] = "read" /\ wpc'[w] = "send"
            /\ \A v \in Workers \ {w} : wpc'[v] = wpc[v]

\* C35: each worker has at most one request outstanding (it reads the next
\* one only after writing the reply to the previous one), and the reply a
\* worker writes is the reply to the request it submitted.
C35_OneOutstandingOwnReply == []C35_OwnRequest /\ [][C35_WorkerStep]_vars

\* C35: one worker holds the reply to its request, not yet written, while
\* the request of the other worker is being handled.
C35_Witness ==
    /\ epc = "ran" /\ nreply = 1 /\ cur.seq = 2
    /\ wpc[cur.w] = "wait"
    /\ \E w \in Workers \ {cur.w} : wpc[w] = "write"

(***************************************************************************)
(* Properties of SdkCompatPlugin.                                          *)
(***************************************************************************)
\* C36: call hands a native call to the inner layer's call unchanged; for
\* a Cosmos-SDK Tx it invokes the inner layer's call exactly once, with
\* what convert(tx) returned, and when convert fails it returns that error
\* and does not invoke the inner layer's call; begin_block, end_block,
\* init_chain and abci_query invoke the inner layer's method with the same
\* argument and return its result.
C36_PluginForwards ==
    /\ (given.fn = "call" /\ given.shape = "Native") =>
        /\ Len(invoked) = 1
        /\ invoked[1].fn = "call" /\ invoked[1].arg = given.arg
        /\ returned = invoked[1].res
    /\ (given.fn = "call" /\ given.shape = "Sdk") =>
        /\ Len(invoked) >= 1
        /\ invoked[1].fn = "convert" /\ invoked[1].arg = given.arg
        /\ IF invoked[1].ok
           THEN /\ Len(invoked) = 2
                /\ invoked[2].fn = "call" /\ invoked[2].arg = invoked[1].res
                /\ returned = invoked[2].res
           ELSE /\ Len(invoked) = 1
                /\ returned = invoked[1].res
    /\ given.fn \in {"begin_block", "end_block", "init_chain", "abci_query"} =>
        /\ Len(invoked) = 1
        /\ invoked[1].fn = given.fn /\ invoked[1].arg = given.arg
        /\ returned = invoked[1].res

\* C36: a Tx whose conversion failed was answered with the error of
\* convert, after a Tx that was converted and called.
C36_Witness ==
    /\ ncalls = 2
    /\ given.fn = "call" /\ given.shape = "Sdk"
    /\ Len(invoked) = 1 /\ ~invoked[1].ok
    /\ returned = "e2"

(***************************************************************************)
(* Further properties of the accounts module.                              *)
(***************************************************************************)
\* The last call was op and returned Ok, after the step.
Went(op) == ret'.op = op /\ ret'.result = "Ok"
\* The accounts other than these keep their balance in the step.
OthersKept(addrs) ==
    \A a \in Addresses \ addrs : Balance(accounts', a) = Balance(accounts, a)
\* The balance of address changes by delta in the step.
Moved(address, delta) ==
    Balance(accounts', address) = Balance(accounts, address) + delta

\* C37: a successful transfer, take_as_funding, give_from_funding or
\* give_from_funding_all keeps the sum of all balances and the Paid balance;
\* a transfer moves the amount from the signer to the recipient (nothing
\* when they are the same), a funding call moves the amount between the
\* signer's account and the Paid context.
C37_Step ==
    LET s == ret'.signer
        amt == ret'.amount
    IN  /\ (\E op \in {"transfer", "take_as_funding", "give_from_funding",
                        "give_from_funding_all"} : Went(op)) =>
            Supply(accounts', paid') = Supply(accounts, paid)
        /\ Went("transfer") =>
            /\ paid' = paid
            /\ OthersKept({s, ret'.to})
            /\ IF s = ret'.to THEN Moved(s, 0)
               ELSE Moved(s, 0 - amt) /\ Moved(ret'.to, amt)
        /\ Went("take_as_funding") =>
            /\ OthersKept({s})
            /\ Moved(s, 0 - amt)
            /\ paid' = Some(Unwrap(paid) + amt)
        /\ Went("give_from_funding") =>
            /\ OthersKept({s})
            /\ Moved(s, amt)
            /\ paid' = Some(Unwrap(paid) - amt)
        /\ Went("give_from_funding_all") =>
            /\ OthersKept({s})
            /\ Moved(s, Unwrap(paid))
            /\ paid' = Some(0)

C37_SupplyPreserved == [][C37_Step]_vars

\* C37: two coins were transferred to another account that held one.
C37_Witness ==
    /\ ret.op = "transfer" /\ ret.result = "Ok"
    /\ ret.amount = 2 /\ ret.signer # ret.to
    /\ Balance(accounts, ret.to) = 3
    /\ Balance(accounts, ret.signer) = 0

(***************************************************************************)
(* Properties of HttpClient.                                               *)
(***************************************************************************)
\* C38: call returns Ok only when the transaction was broadcast and both
\* its CheckTx and its DeliverTx code are zero; a call that is not a
\* DeliverTx call is refused and nothing is broadcast for it.
C38_OkOnlyWhenExecuted ==
    /\ sent.kind \notin {"none", "DeliverTx"} =>
        answer # "Ok" /\ ~rpc.made
    /\ answer = "Ok" =>
        /\ rpc.made /\ rpc.ok
        /\ rpc.check_tx = 0
        /\ rpc.deliver_tx = 0

====
